---- MODULE Spec2Model ----
(***************************************************************************)
(* Model of Engine/NodeGroup.cpp: NodeCollection (ordered membership of    *)
(* nodes, recursive traversal, path lookup, naming) and NodeGroup (a node  *)
(* that is also a collection, with its derived input/output lists).        *)
(*                                                                         *)
(* Strings are sequences of one-character strings, so that script names,   *)
(* dotted paths and numeric suffixes are computed character by character.  *)
(***************************************************************************)
EXTENDS Integers, Sequences, FiniteSets, TLC

VARIABLES
    nodes,               \* NodeCollectionPrivate::nodes, per collection
    inputs,              \* NodeGroupPrivate::inputs, per group
    outputs,             \* NodeGroupPrivate::outputs, per group
    isActivatingGroup,   \* NodeGroupPrivate::isActivatingGroup, per group
    isDeactivatingGroup, \* NodeGroupPrivate::isDeactivatingGroup, per group
    nodeInputs,          \* per node: its input slots (Node::getInput), Null when free
    lastCall,            \* the last call made on the API and what it returned
    nodesMutex,          \* NodeCollectionPrivate::nodesMutex, per collection: its holder
    nodesLock,           \* NodeGroupPrivate::nodesLock, per group: its holder
    stack,               \* per thread: the frames of the calls it is executing
    seen                 \* per thread: the values the membership list took during its getNodes call

threadVars == <<nodesMutex, nodesLock, stack, seen>>

vars == <<nodes, inputs, outputs, isActivatingGroup, isDeactivatingGroup, nodeInputs, lastCall,
          nodesMutex, nodesLock, stack, seen>>

(***************************************************************************)
(* The node universe.  A node is created by the application for one        *)
(* collection (Node::getGroup) and keeps its kind for life.                *)
(***************************************************************************)
Null == "null"

Root == "root"

Nodes == {"A", "P", "B", "I1", "O1", "C"}

\* two more plain nodes of the root, named with a numeric suffix
SuffixedNodes == {"N1", "N2"}

\* a second input terminal and a second output terminal of the group A
TerminalNodes == {"I2", "O2"}

\* the nodes that are wired to each other: two sources, a one-input and a
\* two-input effect, and two output terminals (a viewer and a writer)
WireNodes == {"R1", "R2", "M1", "M2", "W1", "W2"}

\* the records of a persisted batch, in the order of their addresses (the
\* order of the map from record to created node)
RecordIds == <<"s1", "s2">>

\* the nodes the application creates from the records: a source input
\* followed by two masks
LoadNodes == {"L1", "L2"}

\* the node the application makes when it creates record s
\* the members of the root that are saved and loaded again
SavedNodes == {"P", "N1"}

createdNodeOf(s) == IF s = "s1" THEN "L1" ELSE "L2"

\* Node::getMaxInputCount of a node that is not a group
Node_getMaxInputCount(n) ==
    CASE n \in {"R1", "R2"} -> 0
      [] n \in {"M2"} -> 2
      [] n \in LoadNodes \cup SavedNodes -> 3
      [] OTHER -> 1

\* Node::isOutputNode
isOutputNode(n) == n \in {"W1", "W2"}

\* whether a connected input slot may be taken over by a new connection
isInputOverridable(n, i) == n = "W1"

\* EffectInstance subtype of a node: isEffectNodeGroup, isEffectGroupInput, toGroupOutput
Kind(n) ==
    CASE n \in {"A", "B"} -> "group"
      [] n \in {"I1", "I2"} -> "groupInput"
      [] n \in {"O1", "O2"} -> "groupOutput"
      [] OTHER -> "plain"

Groups == {n \in Nodes : Kind(n) = "group"}

Collections == {Root} \cup Groups

\* Node::getGroup: the collection a node was created for
getGroup(n) ==
    CASE n \in {"A", "P", "N1", "N2"} \cup LoadNodes -> Root
      [] n \in {"B", "I1", "O1", "I2", "O2"} -> "A"
      [] OTHER -> "B"

\* Node::getScriptName_mt_safe; P was given the name that A already has
getScriptName(n) ==
    CASE n \in {"A", "P"} -> <<"a">>
      [] n = "N1" -> <<"a", "1">>
      [] n = "N2" -> <<"a", "2">>
      [] n = "B" -> <<"b">>
      [] n = "I1" -> <<"i">>
      [] n = "O1" -> <<"o">>
      [] n = "I2" -> <<"i", "2">>
      [] n = "O2" -> <<"o", "2">>
      [] OTHER -> <<"c">>

isEffectNodeGroup(n) == Kind(n) = "group"

isEffectGroupInput(n) == Kind(n) = "groupInput"

toGroupOutput(n) == Kind(n) = "groupOutput"

(***************************************************************************)
(* Sequence helpers (std::list / std::vector operations).                  *)
(***************************************************************************)
Range(s) == {s[i] : i \in 1..Len(s)}

\* index of the first element equal to x, 0 when there is none
IndexOf(s, x) ==
    IF x \in Range(s) THEN CHOOSE i \in 1..Len(s) : s[i] = x /\ \A j \in 1..(i - 1) : s[j] # x
    ELSE 0

\* erase(it) on the first match followed by break
EraseFirst(s, x) ==
    LET i == IndexOf(s, x)
    IN  IF i = 0 THEN s ELSE SubSeq(s, 1, i - 1) \o SubSeq(s, i + 1, Len(s))

\* longest the derived input and output lists may grow in the model
MaxInputs == 2

(***************************************************************************)
(* NodeCollection::addNode: push_back under the lock, no uniqueness check. *)
(***************************************************************************)
PushBackTwice(s, n) == Append(Append(s, n), n)

PushBack(s, n) == Append(s, n)

addNode(c, n) ==
    /\ getGroup(n) = c
    /\ n \notin Range(nodes[c])
    /\ nodes' = [nodes EXCEPT ![c] = PushBack(nodes[c], n)]
    /\ lastCall' = [op |-> "addNode", n |-> Null]
    /\ UNCHANGED <<inputs, outputs, isActivatingGroup, isDeactivatingGroup>>

(***************************************************************************)
(* NodeGroup::onNodeRemoved: erase the first entry of inputs that is the   *)
(* node, and the first entry of outputs that is the node.                  *)
(***************************************************************************)
onNodeRemovedInputs(s, n) == EraseFirst(s, n)

onNodeRemovedOutputs(s, n) == EraseFirst(s, n)

(***************************************************************************)
(* NodeCollection::removeNode: return at once on null; otherwise erase the *)
(* first matching member and call onNodeRemoved (whether or not a member   *)
(* was erased).  The base collection's hook does nothing.                  *)
(***************************************************************************)
removeNode(c, n) ==
    /\ n # Null => getGroup(n) = c
    /\ lastCall' = [op |-> "removeNode", n |-> n]
    /\ IF n = Null
       THEN UNCHANGED <<nodes, inputs, outputs>>
       ELSE /\ nodes' = [nodes EXCEPT ![c] = EraseFirst(nodes[c], n)]
            /\ IF c \in Groups
               THEN /\ inputs' = [inputs EXCEPT ![c] = onNodeRemovedInputs(inputs[c], n)]
                    /\ outputs' = [outputs EXCEPT ![c] = onNodeRemovedOutputs(outputs[c], n)]
               ELSE UNCHANGED <<inputs, outputs>>
    /\ UNCHANGED <<isActivatingGroup, isDeactivatingGroup>>

(***************************************************************************)
(* NodeGroup::notifyNodeActivated: nothing while the group is being        *)
(* activated; else a group-input terminal is pushed on inputs and a        *)
(* group-output terminal on outputs, with no check that it is there        *)
(* already.  The notification comes from a member node of the group.       *)
(***************************************************************************)
notifyNodeActivated(g, n) ==
    /\ n \in Range(nodes[g])
    /\ Len(inputs[g]) < MaxInputs /\ Len(outputs[g]) < MaxInputs
    /\ lastCall' = [op |-> "notifyNodeActivated", n |-> Null]
    /\ IF isActivatingGroup[g]
       THEN UNCHANGED <<inputs, outputs>>
       ELSE /\ inputs' = [inputs EXCEPT ![g] =
                            IF isEffectGroupInput(n) THEN Append(@, n) ELSE @]
            /\ outputs' = [outputs EXCEPT ![g] =
                            IF toGroupOutput(n) THEN Append(@, n) ELSE @]
    /\ UNCHANGED <<nodes, isActivatingGroup, isDeactivatingGroup>>

(***************************************************************************)
(* NodeGroup::notifyNodeDeactivated: nothing while the group is being      *)
(* deactivated; else the first entry of inputs (of outputs) that is the    *)
(* node is erased.                                                         *)
(***************************************************************************)
notifyNodeDeactivated(g, n) ==
    /\ n \in Range(nodes[g])
    /\ lastCall' = [op |-> "notifyNodeDeactivated", n |-> Null]
    /\ IF isDeactivatingGroup[g]
       THEN UNCHANGED <<inputs, outputs>>
       ELSE /\ inputs' = [inputs EXCEPT ![g] =
                            IF isEffectGroupInput(n) THEN EraseFirst(@, n) ELSE @]
            /\ outputs' = [outputs EXCEPT ![g] =
                            IF toGroupOutput(n) THEN EraseFirst(@, n) ELSE @]
    /\ UNCHANGED <<nodes, isActivatingGroup, isDeactivatingGroup>>

\* NodeGroup::setIsActivatingGroup
setIsActivatingGroup(g, b) ==
    /\ isActivatingGroup' = [isActivatingGroup EXCEPT ![g] = b]
    /\ lastCall' = [op |-> "setIsActivatingGroup", n |-> Null]
    /\ UNCHANGED <<nodes, inputs, outputs, isDeactivatingGroup>>

\* NodeGroup::setIsDeactivatingGroup
setIsDeactivatingGroup(g, b) ==
    /\ isDeactivatingGroup' = [isDeactivatingGroup EXCEPT ![g] = b]
    /\ lastCall' = [op |-> "setIsDeactivatingGroup", n |-> Null]
    /\ UNCHANGED <<nodes, inputs, outputs, isActivatingGroup>>

\* NodeGroup::getMaxInputCount
getMaxInputCount(g) == Len(inputs[g])

\* NodeGroup::getInputs: the entries of inputs, in order (an entry is a weak
\* pointer; the nodes of the model are never freed, so none is skipped)
getInputs(g) == inputs[g]

\* the output node taken from the back of the list
getOutputNodeBack(g) == IF outputs[g] = <<>> THEN Null ELSE outputs[g][Len(outputs[g])]

\* NodeGroup::getOutputNode
getOutputNode(g) == IF outputs[g] = <<>> THEN Null ELSE Head(outputs[g])

\* Node::getInput(i) on node n, i counted from 0: the node that feeds the slot
getInput(n, i) == [feeds |-> n, slot |-> i]

\* NodeGroup::getOutputNodeInput
getOutputNodeInput(g) ==
    LET output == getOutputNode(g)
    IN  IF output # Null THEN getInput(output, 0) ELSE Null

\* the lookup that stops at the last entry that is the terminal
RECURSIVE getRealInputForInputLast(_, _, _)
getRealInputForInputLast(g, i, input) ==
    IF i >= Len(inputs[g]) THEN Null
    ELSE IF inputs[g][Len(inputs[g]) - i] = input THEN getInput(g, Len(inputs[g]) - i - 1)
    ELSE getRealInputForInputLast(g, i + 1, input)

\* NodeGroup::getRealInputForInput, from position i of the input list (from 0)
RECURSIVE getRealInputForInput(_, _, _)
getRealInputForInput(g, i, input) ==
    IF i >= Len(inputs[g]) THEN Null
    ELSE IF inputs[g][i + 1] = input THEN getInput(g, i)
    ELSE getRealInputForInput(g, i + 1, input)

(***************************************************************************)
(* NodeCollection::getNodes_recursive: under the lock, every member is     *)
(* skipped when onlyActive is set ("continue"), otherwise it is appended   *)
(* and, when a group, queued; the queued groups are then visited in order  *)
(* after the lock is released.                                             *)
(***************************************************************************)
RECURSIVE SelectGroups(_)
SelectGroups(s) ==
    IF s = <<>> THEN <<>>
    ELSE (IF isEffectNodeGroup(Head(s)) THEN <<Head(s)>> ELSE <<>>) \o SelectGroups(Tail(s))

\* what the locked loop appends to the result
LevelAppended(c, onlyActive) == IF onlyActive THEN <<>> ELSE nodes[c]

\* what the locked loop puts in groupToRecurse
groupToRecurse(c, onlyActive) == IF onlyActive THEN <<>> ELSE SelectGroups(nodes[c])

RECURSIVE getNodes_recursive(_, _, _)
RECURSIVE RecurseInto(_, _, _)
RecurseInto(grps, acc, onlyActive) ==
    IF grps = <<>> THEN acc
    ELSE RecurseInto(Tail(grps), getNodes_recursive(Head(grps), acc, onlyActive), onlyActive)

getNodes_recursive(c, acc, onlyActive) ==
    RecurseInto(groupToRecurse(c, onlyActive), acc \o LevelAppended(c, onlyActive), onlyActive)

(***************************************************************************)
(* NodeCollection::getActiveNodesExpandGroups: each member is appended     *)
(* and, when it is a group, the group's own expansion follows at once.     *)
(***************************************************************************)
RECURSIVE ExpandChildrenFirst(_, _, _)
ExpandChildrenFirst(c, i, acc) ==
    IF i > Len(nodes[c]) THEN acc
    ELSE LET n == nodes[c][i]
             sub == IF isEffectNodeGroup(n) THEN ExpandChildrenFirst(n, 1, acc) ELSE acc
         IN  ExpandChildrenFirst(c, i + 1, Append(sub, n))

RECURSIVE ExpandFrom(_, _, _)
ExpandFrom(c, i, acc) ==
    IF i > Len(nodes[c]) THEN acc
    ELSE LET n == nodes[c][i]
             pushed == Append(acc, n)
         IN  ExpandFrom(c, i + 1, IF isEffectNodeGroup(n) THEN ExpandFrom(n, 1, pushed) ELSE pushed)

getActiveNodesExpandGroupsAfter(c, acc) == ExpandChildrenFirst(c, 1, acc)

getActiveNodesExpandGroups(c, acc) == ExpandFrom(c, 1, acc)

(***************************************************************************)
(* Dotted paths.  getNodeNameAndRemainder_LeftToRight: name is the text    *)
(* before the first dot; remainder is the text after it when there is any, *)
(* and is left as it was (empty in the caller) otherwise.                  *)
(***************************************************************************)
Dot == "."

\* std::string::find_first_of('.') as a 1-based position, 0 for npos
find_first_of(str) == IndexOf(str, Dot)

getNodeNameAndRemainder_LeftToRight(str) ==
    LET foundDot == find_first_of(str)
    IN  IF foundDot # 0
        THEN [name |-> SubSeq(str, 1, foundDot - 1),
              remainder |-> IF foundDot < Len(str) THEN SubSeq(str, foundDot + 1, Len(str)) ELSE <<>>]
        ELSE [name |-> str, remainder |-> <<>>]

\* std::string::find_last_of('.') as a 1-based position, 0 for npos
find_last_of(str) ==
    IF Dot \in Range(str)
    THEN CHOOSE i \in 1..Len(str) : str[i] = Dot /\ \A j \in (i + 1)..Len(str) : str[j] # Dot
    ELSE 0

\* std::string::substr(pos, n), pos counted from 0; n characters or up to the end
substr(str, pos, n) ==
    SubSeq(str, pos + 1, IF pos + n < Len(str) THEN pos + n ELSE Len(str))

\* NodeCollection::getNodeNameAndRemainder_RightToLeft; foundDot is the
\* position of the last dot counted from 0, name and remainder are empty
\* before the call
getNodeNameAndRemainder_RightToLeft(str) ==
    LET foundDot == find_last_of(str) - 1
    IN  IF find_last_of(str) # 0
        THEN [name |-> substr(str, foundDot + 1, Len(str)),
              remainder |-> IF foundDot > 0 THEN substr(str, 0, foundDot - 1) ELSE <<>>]
        ELSE [name |-> str, remainder |-> <<>>]

(***************************************************************************)
(* NodeCollectionPrivate::findNodeInternal and                             *)
(* NodeCollection::getNodeByFullySpecifiedName.  The members are scanned   *)
(* in order; a member with the name ends the scan with itself when there   *)
(* is no remainder, with the nested lookup's result (found or not) when    *)
(* there is one and the member is a group, and is passed over otherwise.   *)
(***************************************************************************)
RECURSIVE findNodeInternal(_, _, _, _)
getNodeByFullySpecifiedName(c, fullySpecifiedName) ==
    LET split == getNodeNameAndRemainder_LeftToRight(fullySpecifiedName)
    IN  findNodeInternal(c, 1, split.name, split.remainder)

\* the same scan without the descent into a group: the member itself is returned
findNodeNoRecursion(c, i, name, recurseName) ==
    IF \E k \in 1..Len(nodes[c]) : getScriptName(nodes[c][k]) = name
    THEN nodes[c][CHOOSE k \in 1..Len(nodes[c]) : getScriptName(nodes[c][k]) = name]
    ELSE Null

findNodeInternal(c, i, name, recurseName) ==
    IF i > Len(nodes[c]) THEN Null
    ELSE LET n == nodes[c][i]
         IN  IF getScriptName(n) = name
             THEN IF recurseName # <<>>
                  THEN IF isEffectNodeGroup(n)
                       THEN getNodeByFullySpecifiedName(n, recurseName)
                       ELSE findNodeInternal(c, i + 1, name, recurseName)
                  ELSE n
             ELSE findNodeInternal(c, i + 1, name, recurseName)

\* NodeCollection::getNodeByName
getNodeByName(c, name) == findNodeInternal(c, 1, name, <<>>)

(***************************************************************************)
(* Naming.  makeNameScriptFriendly keeps the alphanumeric characters of    *)
(* a name and drops the others.                                            *)
(***************************************************************************)
Letters == {"a", "b", "c", "i", "o", "k", "O", "F", "X"}

Digits == {"0", "1", "2", "3", "4", "5", "6", "7", "8", "9"}

isalnum(ch) == ch \in Letters \cup Digits

RECURSIVE makeNameScriptFriendly(_)
makeNameScriptFriendly(str) ==
    IF str = <<>> THEN <<>>
    ELSE (IF isalnum(Head(str)) THEN <<Head(str)>> ELSE <<>>) \o makeNameScriptFriendly(Tail(str))

\* std::stringstream << int, for no >= 0
DigitChar(d) ==
    CASE d = 0 -> "0" [] d = 1 -> "1" [] d = 2 -> "2" [] d = 3 -> "3" [] d = 4 -> "4"
      [] d = 5 -> "5" [] d = 6 -> "6" [] d = 7 -> "7" [] d = 8 -> "8" [] OTHER -> "9"

RECURSIVE IntToStr(_)
IntToStr(no) == IF no < 10 THEN <<DigitChar(no)>> ELSE Append(IntToStr(no \div 10), DigitChar(no % 10))

\* KnobHolder::getKnobs of a group, by script name: the group's own parameters
getKnobs(g) == IF g = "A" THEN {<<"k">>, <<"a", "1">>} ELSE {}

(***************************************************************************)
(* NodeCollection::checkNodeName.  The result records how the call ended   *)
(* (status), what *nodeName holds then (nodeName, which starts as out),    *)
(* and how many times the membership list was scanned (reads).             *)
(***************************************************************************)
\* the scan without the exception for the node passed in
foundNodeWithNameAmongAll(c, node, nodeName) ==
    \E i \in 1..Len(nodes[c]) : getScriptName(nodes[c][i]) = nodeName

\* one pass of the do-while body's scan: some other member has the candidate name
foundNodeWithName(c, node, nodeName) ==
    \E i \in 1..Len(nodes[c]) : nodes[c][i] # node /\ getScriptName(nodes[c][i]) = nodeName

\* the loop trying a colliding candidate a second time before it moves on
RECURSIVE CollisionLoopRetrying(_, _, _, _, _, _, _, _)
CollisionLoopRetrying(c, node, cpy, no, nodeName, appendDigit, errorIfExists, reads) ==
    IF foundNodeWithName(c, node, nodeName)
    THEN IF errorIfExists \/ ~appendDigit
         THEN [status |-> "name-exists", nodeName |-> nodeName, reads |-> reads + 1]
         ELSE CollisionLoopRetrying(c, node, cpy, no + 1, cpy \o IntToStr(no + 1),
                                    appendDigit, errorIfExists, reads + 2)
    ELSE [status |-> "ok", nodeName |-> nodeName, reads |-> reads + 1]

\* the loop with the suffix going up by two after a collision
RECURSIVE CollisionLoopSkipping(_, _, _, _, _, _, _, _)
CollisionLoopSkipping(c, node, cpy, no, nodeName, appendDigit, errorIfExists, reads) ==
    IF foundNodeWithName(c, node, nodeName)
    THEN IF errorIfExists \/ ~appendDigit
         THEN [status |-> "name-exists", nodeName |-> nodeName, reads |-> reads + 1]
         ELSE CollisionLoopSkipping(c, node, cpy, no + 2, cpy \o IntToStr(no + 2),
                                    appendDigit, errorIfExists, reads + 1)
    ELSE [status |-> "ok", nodeName |-> nodeName, reads |-> reads + 1]

RECURSIVE CollisionLoop(_, _, _, _, _, _, _, _)
CollisionLoop(c, node, cpy, no, nodeName, appendDigit, errorIfExists, reads) ==
    IF foundNodeWithName(c, node, nodeName)
    THEN IF errorIfExists \/ ~appendDigit
         THEN [status |-> "name-exists", nodeName |-> nodeName, reads |-> reads + 1]
         ELSE CollisionLoop(c, node, cpy, no + 1, cpy \o IntToStr(no + 1),
                            appendDigit, errorIfExists, reads + 1)
    ELSE [status |-> "ok", nodeName |-> nodeName, reads |-> reads + 1]

\* the checks made in the wrong order: the first candidate is written and the
\* membership scanned before the name is found to be invalid
checkNodeNameLateValidation(c, node, baseName, appendDigit, errorIfExists, out) ==
    LET cpy == makeNameScriptFriendly(baseName)
        first == IF appendDigit THEN cpy \o IntToStr(1) ELSE cpy
    IN  IF baseName = <<>> \/ cpy = <<>>
        THEN [status |-> "invalid-name", nodeName |-> first,
              reads |-> 1]
        ELSE IF c \in Groups /\ cpy \in getKnobs(c)
        THEN [status |-> "knob-conflict", nodeName |-> out, reads |-> 0]
        ELSE CollisionLoop(c, node, cpy, 1, first, appendDigit, errorIfExists, 0)

\* the candidate written after what *nodeName holds instead of over it
checkNodeNameAppending(c, node, baseName, appendDigit, errorIfExists, out) ==
    LET cpy == makeNameScriptFriendly(baseName)
    IN  IF baseName = <<>> \/ cpy = <<>>
        THEN [status |-> "invalid-name", nodeName |-> out, reads |-> 0]
        ELSE IF c \in Groups /\ cpy \in getKnobs(c)
        THEN [status |-> "knob-conflict", nodeName |-> out, reads |-> 0]
        ELSE CollisionLoop(c, node, cpy, 1,
                           out \o (IF appendDigit THEN cpy \o IntToStr(1) ELSE cpy),
                           appendDigit, errorIfExists, 0)

checkNodeName(c, node, baseName, appendDigit, errorIfExists, out) ==
    IF baseName = <<>>
    THEN [status |-> "invalid-name", nodeName |-> out, reads |-> 0]
    ELSE LET cpy == makeNameScriptFriendly(baseName)
         IN  IF cpy = <<>>
             THEN [status |-> "invalid-name", nodeName |-> out, reads |-> 0]
             ELSE IF c \in Groups /\ cpy \in getKnobs(c)
             THEN [status |-> "knob-conflict", nodeName |-> out, reads |-> 0]
             ELSE CollisionLoop(c, node, cpy, 1,
                                IF appendDigit THEN cpy \o IntToStr(1) ELSE cpy,
                                appendDigit, errorIfExists, 0)

(***************************************************************************)
(* NodeCollection::initNodeName.  A trailing "OFX" is cut from a label of  *)
(* more than three characters; an output plugin is first tried without a   *)
(* digit and, when that call throws (whatever it throws), with one; every  *)
(* other plugin is tried with a digit only.                                *)
(***************************************************************************)
PLUGINID_NATRON_OUTPUT == "fr.inria.built-in.Output"

initNodeNameBase(pluginLabel) ==
    LET size == Len(pluginLabel)
    IN  IF size > 3 /\ pluginLabel[size] = "X" /\ pluginLabel[size - 1] = "F"
                    /\ pluginLabel[size - 2] = "O"
        THEN SubSeq(pluginLabel, 1, size - 3)
        ELSE pluginLabel

\* every plugin given a digit, the output plugin included
initNodeNameAlwaysDigit(c, pluginID, pluginLabel, out) ==
    checkNodeName(c, Null, initNodeNameBase(pluginLabel), TRUE, FALSE, out)

initNodeName(c, pluginID, pluginLabel, out) ==
    LET baseName == initNodeNameBase(pluginLabel)
    IN  IF pluginID # PLUGINID_NATRON_OUTPUT
        THEN checkNodeName(c, Null, baseName, TRUE, FALSE, out)
        ELSE LET try == checkNodeName(c, Null, baseName, FALSE, FALSE, out)
             IN  IF try.status = "ok" THEN try
                 ELSE checkNodeName(c, Null, baseName, TRUE, FALSE, try.nodeName)

(***************************************************************************)
(* NodeCollection::recomputeFrameRangeForAllReaders.  The members are      *)
(* visited in order; a reader whose range is bounded sets the bound when   *)
(* setFrameRange is true and widens it otherwise; a member that is not a   *)
(* reader and is a group is entered with setFrameRange false.  The flag    *)
(* keeps the value the call was entered with for all its members.          *)
(***************************************************************************)
INT_MAX == 2147483647

INT_MIN == -INT_MAX - 1

\* EffectInstance::isReader: the plain nodes of the root and of B read files
isReader(n) == n \in {"P", "N1", "N2", "C"}

\* EffectInstance::getFrameRange_public, which succeeds for every reader here
getFrameRange(n) ==
    CASE n = "P" -> [min |-> 1, max |-> 10]
      [] n = "N1" -> [min |-> 5, max |-> 20]
      [] n = "N2" -> [min |-> 0, max |-> 3]
      [] OTHER -> [min |-> -4, max |-> 6]

Min(a, b) == IF a < b THEN a ELSE b

Max(a, b) == IF a > b THEN a ELSE b

\* what one reader does to the pair (*firstFrame, *lastFrame)
ReaderRange(n, range, setFrameRange) ==
    LET thisRange == getFrameRange(n)
    IN  [first |-> IF thisRange.min # INT_MIN
                   THEN (IF setFrameRange THEN thisRange.min ELSE Min(range.first, thisRange.min))
                   ELSE range.first,
         last |-> IF thisRange.max # INT_MAX
                  THEN (IF setFrameRange THEN thisRange.max ELSE Max(range.last, thisRange.max))
                  ELSE range.last]

RECURSIVE recomputeFrameRangeForAllReadersInternal(_, _, _, _)
recomputeFrameRangeForAllReadersInternal(c, i, range, setFrameRange) ==
    IF i > Len(nodes[c]) THEN range
    ELSE LET n == nodes[c][i]
             after == IF isReader(n) THEN ReaderRange(n, range, setFrameRange)
                      ELSE IF isEffectNodeGroup(n)
                      THEN recomputeFrameRangeForAllReadersInternal(n, 1, range, FALSE)
                      ELSE range
         IN  recomputeFrameRangeForAllReadersInternal(c, i + 1, after, setFrameRange)

recomputeFrameRangeForAllReaders(c, range) ==
    recomputeFrameRangeForAllReadersInternal(c, 1, range, TRUE)

(***************************************************************************)
(* Teardown.  The calls a teardown makes on the nodes                      *)
(* (quitAnyProcessing_blocking, quitAnyProcessing_non_blocking,            *)
(* destroyNode) are kept in a log, in the order they are made; a call has  *)
(* returned when the next one is made.  destroyNode is the node's own      *)
(* teardown and is taken to leave the lists of the collections alone.      *)
(***************************************************************************)
Event(ev, n) == [ev |-> ev, n |-> n]

\* NodeCollection::quitAnyProcessingInternal, from member i of c on
RECURSIVE quitAnyProcessingInternal(_, _, _, _)
quitAnyProcessingInternal(c, i, blocking, log) ==
    IF i > Len(nodes[c]) THEN log
    ELSE LET n == nodes[c][i]
             quit == Append(log, Event(IF blocking THEN "quitAnyProcessing_blocking"
                                       ELSE "quitAnyProcessing_non_blocking", n))
             after == IF isEffectNodeGroup(n)
                      THEN quitAnyProcessingInternal(n, 1, blocking, quit)
                      ELSE quit
         IN  quitAnyProcessingInternal(c, i + 1, blocking, after)

quitAnyProcessingForAllNodes_blocking(c) == quitAnyProcessingInternal(c, 1, TRUE, <<>>)

quitAnyProcessingForAllNodes_non_blocking(c) == quitAnyProcessingInternal(c, 1, FALSE, <<>>)

\* a caller asks every node of the tree below c to cancel, without waiting
callQuitAnyProcessingNonBlocking(c) ==
    /\ lastCall' = [op |-> "quitAnyProcessingForAllNodes_non_blocking", n |-> Null, c |-> c,
                    before |-> nodes, log |-> quitAnyProcessingForAllNodes_non_blocking(c)]
    /\ UNCHANGED <<nodes, inputs, outputs, isActivatingGroup, isDeactivatingGroup>>

\* the second loop of clearNodesInternal: destroyNode on every copied node
DestroyAll(log, nodesToDelete) ==
    log \o [i \in 1..Len(nodesToDelete) |-> Event("destroyNode", nodesToDelete[i])]

\* the teardown with the nodes of a level destroyed before the groups among
\* them are cleared
RECURSIVE clearNodesInternalOuterFirst(_, _)
RECURSIVE ClearGroupsOuterFirst(_, _)
ClearGroupsOuterFirst(st, todo) ==
    IF todo = <<>> THEN st
    ELSE ClearGroupsOuterFirst(IF isEffectNodeGroup(Head(todo))
                               THEN clearNodesInternalOuterFirst(st, Head(todo)) ELSE st,
                               Tail(todo))

clearNodesInternalOuterFirst(st, c) ==
    LET nodesToDelete == st.nodes[c]
        cleared == ClearGroupsOuterFirst([st EXCEPT !.log = DestroyAll(st.log, nodesToDelete)],
                                         nodesToDelete)
    IN  [nodes |-> [cleared.nodes EXCEPT ![c] = <<>>], log |-> cleared.log]

\* NodeCollection::clearNodesInternal on the state st = [nodes, log]: copy the
\* list, clear every group of the copy, destroy every node of the copy, clear
\* the list
RECURSIVE clearNodesInternal(_, _)
RECURSIVE ClearGroups(_, _)
ClearGroups(st, todo) ==
    IF todo = <<>> THEN st
    ELSE ClearGroups(IF isEffectNodeGroup(Head(todo))
                     THEN clearNodesInternal(st, Head(todo)) ELSE st,
                     Tail(todo))

clearNodesInternal(st, c) ==
    LET nodesToDelete == st.nodes[c]
        cleared == ClearGroups(st, nodesToDelete)
    IN  [nodes |-> [cleared.nodes EXCEPT ![c] = <<>>],
         log |-> DestroyAll(cleared.log, nodesToDelete)]

\* the blocking teardown without the quit requests
clearNodesBlockingWithoutQuit(c) ==
    /\ LET done == clearNodesInternal([nodes |-> nodes, log |-> <<>>], c)
       IN  /\ nodes' = done.nodes
           /\ lastCall' = [op |-> "clearNodesBlocking", n |-> Null, c |-> c,
                           before |-> nodes, log |-> done.log]
    /\ UNCHANGED <<inputs, outputs, isActivatingGroup, isDeactivatingGroup>>

\* NodeCollection::clearNodesBlocking
clearNodesBlocking(c) ==
    /\ LET done == clearNodesInternal(
                       [nodes |-> nodes, log |-> quitAnyProcessingForAllNodes_blocking(c)], c)
       IN  /\ nodes' = done.nodes
           /\ lastCall' = [op |-> "clearNodesBlocking", n |-> Null, c |-> c,
                           before |-> nodes, log |-> done.log]
    /\ UNCHANGED <<inputs, outputs, isActivatingGroup, isDeactivatingGroup>>

\* NodeCollection::clearNodesNonBlocking
clearNodesNonBlocking(c) ==
    /\ LET done == clearNodesInternal([nodes |-> nodes, log |-> <<>>], c)
       IN  /\ nodes' = done.nodes
           /\ lastCall' = [op |-> "clearNodesNonBlocking", n |-> Null, c |-> c,
                           before |-> nodes, log |-> done.log]
    /\ UNCHANGED <<inputs, outputs, isActivatingGroup, isDeactivatingGroup>>

(***************************************************************************)
(* Wiring.  w gives the input slots of every node.  The operations of a    *)
(* node on its own slots belong to the Node class; they do what the        *)
(* specification says of them.                                             *)
(***************************************************************************)
\* the lowest of the slots, -1 when there is none
FirstSlot(slots) == IF slots = {} THEN -1 ELSE CHOOSE i \in slots : \A j \in slots : i <= j

\* Node::getPreferredInputForConnection: the first free slot, else the first
\* overridable slot, else -1
getPreferredInputForConnection(w, n) ==
    LET free == {i \in 1..Node_getMaxInputCount(n) : w[n][i] = Null}
        overridable == {i \in 1..Node_getMaxInputCount(n) : isInputOverridable(n, i)}
    IN  IF free # {} THEN FirstSlot(free) ELSE FirstSlot(overridable)

\* Node::swapInput(input, slot) on node n
swapInput(w, n, input, slot) == [w EXCEPT ![n][slot] = input]

\* Node::disconnectInput(input) on node n: the first slot that holds input is freed
disconnectInput(w, n, input) ==
    LET held == {i \in 1..Node_getMaxInputCount(n) : w[n][i] = input}
    IN  IF held = {} THEN w ELSE [w EXCEPT ![n][FirstSlot(held)] = Null]

\* Node::getOutputs on node n: the consumers of n, each with the slots that hold n
getOutputs(w, n) ==
    {<<m, {i \in 1..Node_getMaxInputCount(m) : w[m][i] = n}>> :
        m \in {x \in WireNodes : \E i \in 1..Node_getMaxInputCount(x) : w[x][i] = n}}

\* the inner loop of the splice: created is put into every listed slot of m
RECURSIVE SwapInputs(_, _, _, _)
SwapInputs(w, m, created, slots) ==
    IF slots = {} THEN w
    ELSE LET i == CHOOSE k \in slots : \A j \in slots : k <= j
         IN  SwapInputs(swapInput(w, m, created, i), m, created, slots \ {i})

\* the splice without the rewiring of the consumers
RewireOutputsNot(w, outs, selected, created) == w

\* the outer loop of the splice, over the consumers of selected
RECURSIVE RewireOutputs(_, _, _, _)
RewireOutputs(w, outs, selected, created) ==
    IF outs = {} THEN w
    ELSE LET it == CHOOSE o \in outs : TRUE
         IN  RewireOutputs(SwapInputs(disconnectInput(w, it[1], selected), it[1], created, it[2]),
                           outs \ {it}, selected, created)

\* the decision with the roles exchanged
connectAsInputExchanged(selected, created) ==
    ~ (isOutputNode(selected) \/ (~isOutputNode(created) /\ Node_getMaxInputCount(created) = 0))

\* the decision of autoConnectNodes, once neither failure rule applies
connectAsInput(selected, created) ==
    IF isOutputNode(selected) THEN TRUE
    ELSE IF isOutputNode(created) THEN FALSE
    ELSE IF Node_getMaxInputCount(created) = 0 THEN TRUE
    ELSE FALSE

\* the connection part of autoConnectNodes: the new wiring and the return value
autoConnectNodesConnect(w, selected, created) ==
    IF connectAsInput(selected, created)
    THEN LET selectedInput == getPreferredInputForConnection(w, selected)
         IN  IF selectedInput # -1
             THEN [w |-> swapInput(w, selected, created, selectedInput), ret |-> TRUE]
             ELSE [w |-> w, ret |-> FALSE]
    ELSE LET spliced == IF ~isOutputNode(created)
                        THEN RewireOutputs(w, getOutputs(w, selected), selected, created)
                        ELSE w
             createdInput == getPreferredInputForConnection(spliced, created)
         IN  IF createdInput # -1
             THEN [w |-> swapInput(spliced, created, selected, createdInput), ret |-> TRUE]
             ELSE [w |-> spliced, ret |-> FALSE]

\* the failure rules without the rule on two output terminals
autoConnectNodesResultOneRule(w, selected, created) ==
    IF Node_getMaxInputCount(selected) = 0 /\ Node_getMaxInputCount(created) = 0
    THEN [w |-> w, ret |-> FALSE]
    ELSE autoConnectNodesConnect(w, selected, created)

\* NodeCollection::autoConnectNodes as a function of the wiring
autoConnectNodesResult(w, selected, created) ==
    IF Node_getMaxInputCount(selected) = 0 /\ Node_getMaxInputCount(created) = 0
    THEN [w |-> w, ret |-> FALSE]
    ELSE IF isOutputNode(selected) /\ isOutputNode(created)
    THEN [w |-> w, ret |-> FALSE]
    ELSE autoConnectNodesConnect(w, selected, created)

\* NodeCollection::autoConnectNodes.  created is a node that no node consumes
\* yet and that does not consume selected.
autoConnectNodes(selected, created) ==
    /\ selected # created
    /\ getOutputs(nodeInputs, created) = {}
    /\ \A i \in 1..Node_getMaxInputCount(created) : nodeInputs[created][i] # selected
    /\ LET done == autoConnectNodesResult(nodeInputs, selected, created)
       IN  /\ nodeInputs' = done.w
           /\ lastCall' = [op |-> "autoConnectNodes", n |-> Null, selected |-> selected,
                           created |-> created, before |-> nodeInputs, ret |-> done.ret]
    /\ UNCHANGED <<nodes, inputs, outputs, isActivatingGroup, isDeactivatingGroup>>

(***************************************************************************)
(* Loading a batch of persisted records into the root collection.          *)
(* A record has the script name the node had when it was saved (name), the *)
(* script name of the node that fed its first input (input) and its mask   *)
(* (mask), <<>> when there was none, and what the application makes of its *)
(* plugin (outcome).  The creation of a node and the name it is given      *)
(* belong to the application; they do what the specification says.         *)
(*                                                                         *)
(* The state of a load is ld = [members, name, created, w, links, log,     *)
(* hasError, createdNodesOut]: the membership list, the script names of    *)
(* the created nodes, the records that are in the map localCreatedNodes,   *)
(* the wiring, the calls of restoreKnobsLinks as pairs <<node, record>>,   *)
(* the steps taken, the error flag and the list handed back to the caller; *)
(* swaps lists the calls of Node::swapInput.  A record keeps one entry of  *)
(* its map of inputs (inputLabel -> input) and one of its map of masks.    *)
(***************************************************************************)
\* "otherVersion": the plugin is found with another major version than the
\* saved one
Outcomes == {"created", "stub", "otherVersion", "failed"}

\* Node::getScriptName of a member during a load
ScriptNameIn(ld, n) == IF n \in LoadNodes THEN ld.name[n] ELSE getScriptName(n)

NamesIn(ld) == {ScriptNameIn(ld, ld.members[i]) : i \in 1..Len(ld.members)}

\* the script name a created node is given: the saved name when no member
\* has it, else the saved name with the smallest free number appended
RECURSIVE FreeNameFrom(_, _, _)
FreeNameFrom(used, name, no) ==
    IF (name \o IntToStr(no)) \notin used THEN name \o IntToStr(no)
    ELSE FreeNameFrom(used, name, no + 1)

FreeName(used, name) == IF name \notin used THEN name ELSE FreeNameFrom(used, name, 1)

\* AppManager::createNodeForProjectLoading followed by the body of the first
\* loop of createNodesFromSerialization, for record s
CreateRecord(ld, ser, s) ==
    LET node == IF ser[s].outcome = "failed" THEN Null ELSE createdNodeOf(s)
        attempted == [ld EXCEPT !.log = Append(@, Event("createNode", s)),
                                !.createdNodesOut = Append(@, node)]
    IN  IF node = Null
        THEN [attempted EXCEPT !.hasError = TRUE]
        ELSE [attempted EXCEPT
                 !.members = Append(@, node),
                 !.name[node] = FreeName(NamesIn(ld), ser[s].name),
                 !.created = @ \cup {s},
                 !.hasError = @ \/ ser[s].outcome = "stub"]

\* the first loop, comparing with the script name the created node has now
FirstCreatedNamedNow(ld, ser, nodeScriptName) ==
    LET inBatch == {i \in 1..Len(RecordIds) :
                       /\ RecordIds[i] \in ld.created
                       /\ ld.name[createdNodeOf(RecordIds[i])] = nodeScriptName}
    IN  IF inBatch = {} THEN Null
        ELSE createdNodeOf(RecordIds[CHOOSE i \in inBatch : \A j \in inBatch : i <= j])

\* the first loop of findSerializedNodeWithScriptName: the node of the first
\* record of the map that has the saved name, Null when there is none
FirstCreatedNamed(ld, ser, nodeScriptName) ==
    LET inBatch == {i \in 1..Len(RecordIds) :
                       RecordIds[i] \in ld.created /\ ser[RecordIds[i]].name = nodeScriptName}
    IN  IF inBatch = {} THEN Null
        ELSE createdNodeOf(RecordIds[CHOOSE i \in inBatch : \A j \in inBatch : i <= j])

\* the second loop: the first node of the list that has the script name now
FirstMemberNamed(ld, allNodesInGroup, nodeScriptName) ==
    LET inGroup == {i \in 1..Len(allNodesInGroup) :
                       ScriptNameIn(ld, allNodesInGroup[i]) = nodeScriptName}
    IN  IF inGroup = {} THEN Null
        ELSE allNodesInGroup[CHOOSE i \in inGroup : \A j \in inGroup : i <= j]

\* the lookup that scans the members before the map of created nodes
findSerializedNodeByCurrentName(ld, ser, nodeScriptName, allNodesInGroup, allowSearchInAllNodes) ==
    IF allowSearchInAllNodes /\ FirstMemberNamed(ld, allNodesInGroup, nodeScriptName) # Null
    THEN FirstMemberNamed(ld, allNodesInGroup, nodeScriptName)
    ELSE FirstCreatedNamed(ld, ser, nodeScriptName)

\* the lookup that scans the members whatever the flag
findSerializedNodeAlsoOutside(ld, ser, nodeScriptName, allNodesInGroup, allowSearchInAllNodes) ==
    IF FirstCreatedNamed(ld, ser, nodeScriptName) # Null
    THEN FirstCreatedNamed(ld, ser, nodeScriptName)
    ELSE FirstMemberNamed(ld, allNodesInGroup, nodeScriptName)

\* NodeCollection::findSerializedNodeWithScriptName
findSerializedNodeWithScriptName(ld, ser, nodeScriptName, allNodesInGroup, allowSearchInAllNodes) ==
    IF FirstCreatedNamed(ld, ser, nodeScriptName) # Null
    THEN FirstCreatedNamed(ld, ser, nodeScriptName)
    ELSE IF allowSearchInAllNodes
    THEN FirstMemberNamed(ld, allNodesInGroup, nodeScriptName)
    ELSE Null

\* EffectInstance::isInputMask(i), i counted from 0: a saved node and a
\* created node have a source input followed by two mask inputs
isInputMask(n, i) == n \in LoadNodes \cup SavedNodes /\ i \in {1, 2}

\* the labels of the inputs of a created node, in the order of the inputs
InputLabels == <<<<"S">>, <<"M">>, <<"K">>>>

\* Node::getInputNumberFromLabel: the input that has the label, -1 when none has
getInputNumberFromLabel(n, inputLabel) ==
    IF \E i \in 1..Len(InputLabels) : InputLabels[i] = inputLabel
    THEN (CHOOSE i \in 1..Len(InputLabels) : InputLabels[i] = inputLabel) - 1
    ELSE -1

\* QString::toInt(&ok) on a string of digits; ok is false for any other string
RECURSIVE toIntValue(_)
toIntValue(str) ==
    IF str = <<>> THEN 0
    ELSE 10 * toIntValue(SubSeq(str, 1, Len(str) - 1))
           + (CHOOSE d \in 0..9 : DigitChar(d) = str[Len(str)])

toInt(str) ==
    IF str # <<>> /\ \A i \in 1..Len(str) : str[i] \in Digits
    THEN [ok |-> TRUE, value |-> toIntValue(str)]
    ELSE [ok |-> FALSE, value |-> 0]

\* the loop over the inputs that looks for the mask with the index, from input i
RECURSIVE MaskLoop(_, _, _, _)
MaskLoop(n, i, maskIndex, index) ==
    IF i >= Node_getMaxInputCount(n) THEN index
    ELSE IF isInputMask(n, i)
    THEN (IF maskIndex = index THEN i ELSE index)
    ELSE MaskLoop(n, i + 1, maskIndex, index)

\* the input (from 0, -1 for none) restoreInput computes for an entry of node n
restoreInputIndex(n, inputLabel, isMaskInput) ==
    LET byLabel == IF inputLabel = <<>> THEN -1 ELSE getInputNumberFromLabel(n, inputLabel)
        parsed == IF toInt(inputLabel).ok THEN toInt(inputLabel).value ELSE -1
    IN  IF byLabel # -1 THEN byLabel
        ELSE IF isMaskInput THEN MaskLoop(n, 0, 0, parsed)
        ELSE parsed

\* Node::swapInput(input, index) on node n, index counted from 0: nothing is
\* connected when the node has no such input
swapInputAt(w, n, input, index) ==
    IF index \in 0..(Node_getMaxInputCount(n) - 1) THEN swapInput(w, n, input, index + 1) ELSE w

\* restoreInput of the created node of record s, for the entry that maps
\* inputLabel to inputNodeScriptName
restoreInput(ld, ser, s, inputLabel, inputNodeScriptName, allNodesInGroup, allowSearchInAllNodes, isMaskInput) ==
    LET called == [ld EXCEPT !.log = Append(@, Event("restoreInput", s))]
        node == createdNodeOf(s)
        index == restoreInputIndex(node, inputLabel, isMaskInput)
        foundNode == findSerializedNodeWithScriptName(ld, ser, inputNodeScriptName,
                                                      allNodesInGroup, allowSearchInAllNodes)
    IN  IF inputNodeScriptName = <<>> THEN called
        ELSE IF foundNode = Null THEN called
        ELSE [called EXCEPT
                 !.swaps = Append(@, [s |-> s, isMaskInput |-> isMaskInput,
                                      input |-> foundNode, index |-> index]),
                 !.w = swapInputAt(@, node, foundNode, index)]

\* the second loop of createNodesFromSerialization, from position i of the map
RECURSIVE RestoreInputsFrom(_, _, _, _, _)
RestoreInputsFrom(ld, ser, i, allNodesInGroup, allowSearchInAllNodes) ==
    IF i > Len(RecordIds) THEN ld
    ELSE LET s == RecordIds[i]
             withInputs == restoreInput(ld, ser, s, ser[s].inputLabel, ser[s].input,
                                        allNodesInGroup, allowSearchInAllNodes, FALSE)
             withMasks == restoreInput(withInputs, ser, s, ser[s].maskLabel, ser[s].mask,
                                       allNodesInGroup, allowSearchInAllNodes, TRUE)
         IN  RestoreInputsFrom(IF s \in ld.created THEN withMasks ELSE ld,
                               ser, i + 1, allNodesInGroup, allowSearchInAllNodes)

\* the first member with the script name, Null when there is none
getNodeByNameIn(ld, name) == FirstMemberNamed(ld, ld.members, name)

\* restoreLinksRecursive on the records of the batch (none of them is a group)
RECURSIVE restoreLinksRecursive(_, _, _)
restoreLinksRecursive(ld, ser, todo) ==
    IF todo = <<>> THEN ld
    ELSE LET s == Head(todo)
             inBatch == findSerializedNodeWithScriptName(ld, ser, ser[s].name, <<>>, FALSE)
             foundNode == IF inBatch # Null THEN inBatch ELSE getNodeByNameIn(ld, ser[s].name)
         IN  restoreLinksRecursive(
                 IF foundNode = Null THEN ld
                 ELSE [ld EXCEPT !.links = @ \cup {<<foundNode, s>>},
                                 !.log = Append(@, Event("restoreKnobsLinks", s))],
                 ser, Tail(todo))

\* the state a load starts from
LoadStart ==
    [members |-> nodes[Root], name |-> [n \in LoadNodes |-> <<>>], created |-> {},
     w |-> nodeInputs, links |-> {}, log |-> <<>>, hasError |-> FALSE, createdNodesOut |-> <<>>,
     swaps |-> <<>>]

\* every record is created and wired before the next one is created
RECURSIVE CreateAndRestoreEach(_, _, _, _)
CreateAndRestoreEach(ld, ser, todo, allowSearchInAllNodes) ==
    IF todo = <<>> THEN ld
    ELSE LET made == CreateRecord(ld, ser, Head(todo))
             s == Head(todo)
             wired == restoreInput(
                          restoreInput(made, ser, s, ser[s].inputLabel, ser[s].input,
                                       made.members, allowSearchInAllNodes, FALSE),
                          ser, s, ser[s].maskLabel, ser[s].mask, made.members, allowSearchInAllNodes, TRUE)
         IN  CreateAndRestoreEach(IF s \in made.created THEN wired ELSE made,
                                  ser, Tail(todo), allowSearchInAllNodes)

\* the first loop of createNodesFromSerialization
RECURSIVE CreateAll(_, _, _)
CreateAll(ld, ser, todo) ==
    IF todo = <<>> THEN ld ELSE CreateAll(CreateRecord(ld, ser, Head(todo)), ser, Tail(todo))

\* the load in one pass over the records, followed by the parameter links
LoadOnePass(start, serializedNodes, ser, connectToExternalNodes) ==
    restoreLinksRecursive(CreateAndRestoreEach(start, ser, serializedNodes, connectToExternalNodes),
                          ser, serializedNodes)

\* NodeCollection::createNodesFromSerialization on the root, as a function of
\* the state the load starts from
Load(start, serializedNodes, ser, connectToExternalNodes) ==
    LET made == CreateAll(start, ser, serializedNodes)
        wired == RestoreInputsFrom(made, ser, 1, made.members, connectToExternalNodes)
    IN  restoreLinksRecursive(wired, ser, serializedNodes)

\* NodeCollection::createNodesFromSerialization
createNodesFromSerialization(serializedNodes, ser, connectToExternalNodes) ==
    /\ LET done == Load(LoadStart, serializedNodes, ser, connectToExternalNodes)
       IN  /\ nodes' = [nodes EXCEPT ![Root] = done.members]
           /\ nodeInputs' = done.w
           /\ lastCall' = [op |-> "createNodesFromSerialization", n |-> Null,
                           serializedNodes |-> serializedNodes, ser |-> ser,
                           flags |-> connectToExternalNodes,
                           before |-> LoadStart, done |-> done, ret |-> ~done.hasError]
    /\ UNCHANGED <<inputs, outputs, isActivatingGroup, isDeactivatingGroup>>

(***************************************************************************)
(* State after construction: empty collections, empty derived lists.       *)
(***************************************************************************)
Mutator == "m"

Readers == {"r1", "r2"}

Threads == {Mutator} \cup Readers

Init ==
    /\ nodesMutex = [c \in Collections |-> Null]
    /\ nodesLock = [g \in Groups |-> Null]
    /\ stack = [t \in Threads |-> <<>>]
    /\ seen = [t \in Threads |-> {}]
    /\ nodes = [c \in Collections |-> <<>>]
    /\ inputs = [g \in Groups |-> <<>>]
    /\ outputs = [g \in Groups |-> <<>>]
    /\ isActivatingGroup = [g \in Groups |-> FALSE]
    /\ isDeactivatingGroup = [g \in Groups |-> FALSE]
    /\ nodeInputs = [n \in WireNodes \cup LoadNodes \cup SavedNodes |-> [i \in 1..Node_getMaxInputCount(n) |-> Null]]
    /\ lastCall = [op |-> "none", n |-> Null]

Next ==
    \/ \E c \in Collections, n \in Nodes : addNode(c, n) /\ UNCHANGED <<threadVars, nodeInputs>>
    \/ \E c \in Collections, n \in Nodes \cup {Null} : removeNode(c, n) /\ UNCHANGED <<threadVars, nodeInputs>>
    \/ \E g \in Groups, n \in Nodes : notifyNodeActivated(g, n) /\ UNCHANGED <<threadVars, nodeInputs>>
    \/ \E g \in Groups, n \in Nodes : notifyNodeDeactivated(g, n) /\ UNCHANGED <<threadVars, nodeInputs>>
    \/ \E g \in Groups, b \in BOOLEAN : setIsActivatingGroup(g, b) /\ UNCHANGED <<threadVars, nodeInputs>>
    \/ \E g \in Groups, b \in BOOLEAN : setIsDeactivatingGroup(g, b) /\ UNCHANGED <<threadVars, nodeInputs>>

Spec == Init /\ [][Next]_vars

(***************************************************************************)
(* Calls of the read operations on the current tree.  The tree is built    *)
(* by addNode and removeNode; a call leaves it as it is and records its    *)
(* arguments and its result.                                               *)
(***************************************************************************)
structure == <<nodes, inputs, outputs, isActivatingGroup, isDeactivatingGroup, nodeInputs>>

\* A read changes nothing, so reads made one after the other on the same tree
\* all see what a single read sees: the model issues each read on the tree as
\* the last addNode or removeNode left it.
AfterMutation == lastCall.op \in {"none", "addNode", "removeNode"}

\* most segments a dotted path has in the model
MaxSegments == 3

Segments == {<<"a">>, <<"b">>, <<"c">>, <<"i">>}

SegmentSeqs == UNION {[1..k -> Segments] : k \in 1..MaxSegments}

RECURSIVE JoinWithDots(_)
JoinWithDots(segs) ==
    IF Len(segs) = 1 THEN segs[1] ELSE segs[1] \o <<Dot>> \o JoinWithDots(Tail(segs))

Paths == {JoinWithDots(segs) : segs \in SegmentSeqs}

callGetNodesRecursive(c, onlyActive) ==
    /\ AfterMutation
    /\ lastCall' = [op |-> "getNodes_recursive", n |-> Null, c |-> c, onlyActive |-> onlyActive,
                    ret |-> getNodes_recursive(c, <<>>, onlyActive)]
    /\ UNCHANGED structure

callGetActiveNodesExpandGroups(c) ==
    /\ AfterMutation
    /\ lastCall' = [op |-> "getActiveNodesExpandGroups", n |-> Null, c |-> c,
                    ret |-> getActiveNodesExpandGroups(c, <<>>)]
    /\ UNCHANGED structure

callGetNodeByFullySpecifiedName(c, path) ==
    /\ AfterMutation
    /\ lastCall' = [op |-> "getNodeByFullySpecifiedName", n |-> Null, c |-> c, path |-> path,
                    ret |-> getNodeByFullySpecifiedName(c, path)]
    /\ UNCHANGED structure

QueryNext ==
    \/ \E c \in Collections, n \in Nodes : addNode(c, n) /\ UNCHANGED <<threadVars, nodeInputs>>
    \/ \E c \in Collections, n \in Nodes \cup {Null} : removeNode(c, n) /\ UNCHANGED <<threadVars, nodeInputs>>
    \/ \E c \in Collections, b \in BOOLEAN : callGetNodesRecursive(c, b) /\ UNCHANGED <<threadVars, nodeInputs>>
    \/ \E c \in Collections : callGetActiveNodesExpandGroups(c) /\ UNCHANGED <<threadVars, nodeInputs>>
    \/ \E c \in Collections, path \in Paths : callGetNodeByFullySpecifiedName(c, path) /\ UNCHANGED <<threadVars, nodeInputs>>

QuerySpec == Init /\ [][QueryNext]_vars

(***************************************************************************)
(* Calls of checkNodeName on the current tree.                             *)
(***************************************************************************)
\* longest base name handed to checkNodeName in the model
MaxNameLen == 2

NameChars == {"a", "k", "-"}

BaseNames == UNION {[1..k -> NameChars] : k \in 0..MaxNameLen}

\* what *nodeName holds before the call
OutBefore == <<"o", "l", "d">>

callCheckNodeName(c, node, baseName, appendDigit, errorIfExists) ==
    /\ AfterMutation
    /\ lastCall' = [op |-> "checkNodeName", n |-> Null, c |-> c, node |-> node,
                    baseName |-> baseName, appendDigit |-> appendDigit,
                    errorIfExists |-> errorIfExists, again |-> FALSE,
                    ret |-> checkNodeName(c, node, baseName, appendDigit, errorIfExists, OutBefore)]
    /\ UNCHANGED structure

\* the same call made once more at once, with the same arguments; *nodeName
\* holds what the first call left in it
recallCheckNodeName ==
    /\ lastCall.op = "checkNodeName"
    /\ ~lastCall.again
    /\ lastCall' = [lastCall EXCEPT
                      !.again = TRUE,
                      !.ret = checkNodeName(lastCall.c, lastCall.node, lastCall.baseName,
                                            lastCall.appendDigit, lastCall.errorIfExists,
                                            lastCall.ret.nodeName)]
    /\ UNCHANGED structure

PluginIDs == {PLUGINID_NATRON_OUTPUT, "other"}

\* labels handed to initNodeName: the base names, and labels ending in OFX
PluginLabels == BaseNames \cup {<<"a", "O", "F", "X">>, <<"O", "F", "X">>}

callInitNodeName(c, pluginID, pluginLabel) ==
    /\ AfterMutation
    /\ lastCall' = [op |-> "initNodeName", n |-> Null, c |-> c, pluginID |-> pluginID,
                    pluginLabel |-> pluginLabel,
                    ret |-> initNodeName(c, pluginID, pluginLabel, OutBefore)]
    /\ UNCHANGED structure

\* the nodes the calls of checkNodeName find in the collections
NameNodes == {"A", "P", "B"} \cup SuffixedNodes

\* The collections are filled first and queried then: a query leaves them as
\* they are, so nothing new is reached by changing them after a query.  The
\* names are asked of the root and of A; B has no member among these nodes.
NameNext ==
    \/ \E c \in Collections, n \in NameNodes :
          AfterMutation /\ addNode(c, n) /\ UNCHANGED <<threadVars, nodeInputs>>
    \/ \E c \in Collections, n \in NameNodes \cup {Null} :
          AfterMutation /\ removeNode(c, n) /\ UNCHANGED <<threadVars, nodeInputs>>
    \/ \E c \in {Root, "A"}, node \in {Null, "P", "N1"}, baseName \in BaseNames, ad, err \in BOOLEAN :
          callCheckNodeName(c, node, baseName, ad, err) /\ UNCHANGED <<threadVars, nodeInputs>>
    \/ recallCheckNodeName /\ UNCHANGED <<threadVars, nodeInputs>>
    \/ \E c \in {Root, "A"}, pluginID \in PluginIDs, pluginLabel \in PluginLabels :
          callInitNodeName(c, pluginID, pluginLabel) /\ UNCHANGED <<threadVars, nodeInputs>>

NameSpec == Init /\ [][NameNext]_vars

(***************************************************************************)
(* Calls of recomputeFrameRangeForAllReaders on the current tree.          *)
(***************************************************************************)
FrameNodes == {"A", "B", "P", "C"} \cup SuffixedNodes

\* what *firstFrame and *lastFrame hold before the call
RangesBefore == {[first |-> 1, last |-> 1], [first |-> -9, last |-> 40]}

callRecomputeFrameRange(c, range) ==
    /\ AfterMutation
    /\ lastCall' = [op |-> "recomputeFrameRangeForAllReaders", n |-> Null, c |-> c,
                    before |-> range, ret |-> recomputeFrameRangeForAllReaders(c, range)]
    /\ UNCHANGED structure

FrameNext ==
    \/ \E c \in Collections, n \in FrameNodes :
          AfterMutation /\ addNode(c, n) /\ UNCHANGED <<threadVars, nodeInputs>>
    \/ \E c \in Collections, n \in FrameNodes \cup {Null} :
          AfterMutation /\ removeNode(c, n) /\ UNCHANGED <<threadVars, nodeInputs>>
    \/ \E c \in Collections, range \in RangesBefore :
          callRecomputeFrameRange(c, range) /\ UNCHANGED <<threadVars, nodeInputs>>

FrameSpec == Init /\ [][FrameNext]_vars

(***************************************************************************)
(* Teardown of the current tree.                                           *)
(***************************************************************************)
ClearNext ==
    \/ \E c \in Collections, n \in Nodes : addNode(c, n) /\ UNCHANGED <<threadVars, nodeInputs>>
    \/ \E c \in Collections, n \in Nodes \cup {Null} : removeNode(c, n) /\ UNCHANGED <<threadVars, nodeInputs>>
    \/ \E c \in Collections : clearNodesBlocking(c) /\ UNCHANGED <<threadVars, nodeInputs>>
    \/ \E c \in Collections : clearNodesNonBlocking(c) /\ UNCHANGED <<threadVars, nodeInputs>>
    \/ \E c \in Collections : callQuitAnyProcessingNonBlocking(c) /\ UNCHANGED <<threadVars, nodeInputs>>

ClearSpec == Init /\ [][ClearNext]_vars

(***************************************************************************)
(* The terminals of the group A: two input terminals and two output        *)
(* terminals are added, activated, deactivated and removed.                *)
(***************************************************************************)
PortNodes == {"I1", "O1"} \cup TerminalNodes

PortNext ==
    \/ \E n \in PortNodes : addNode("A", n) /\ UNCHANGED <<threadVars, nodeInputs>>
    \/ \E n \in PortNodes : removeNode("A", n) /\ UNCHANGED <<threadVars, nodeInputs>>
    \/ \E n \in PortNodes : notifyNodeActivated("A", n) /\ UNCHANGED <<threadVars, nodeInputs>>
    \/ \E n \in PortNodes : notifyNodeDeactivated("A", n) /\ UNCHANGED <<threadVars, nodeInputs>>
    \/ \E b \in BOOLEAN : setIsActivatingGroup("A", b) /\ UNCHANGED <<threadVars, nodeInputs>>
    \/ \E b \in BOOLEAN : setIsDeactivatingGroup("A", b) /\ UNCHANGED <<threadVars, nodeInputs>>

PortSpec == Init /\ [][PortNext]_vars

(***************************************************************************)
(* Wiring of the nodes by autoConnectNodes.                                *)
(***************************************************************************)
WireNext ==
    \/ \E selected, created \in WireNodes :
          autoConnectNodes(selected, created) /\ UNCHANGED threadVars

WireSpec == Init /\ [][WireNext]_vars

(***************************************************************************)
(* Loads of a batch into the root, which holds the nodes added before.     *)
(***************************************************************************)
\* a record that is not in the batch
NoRecord ==
    [name |-> <<>>, input |-> <<>>, inputLabel |-> <<>>, mask |-> <<>>, maskLabel |-> <<>>,
     outcome |-> "failed"]

\* the records: saved as a or b, referring to a, b, a1 or nothing; the
\* entries are keyed by the index of the input and of the mask
Records ==
    [name : {<<"a">>, <<"b">>},
     input : {<<>>, <<"a">>, <<"b">>, <<"a", "1">>},
     inputLabel : {<<"0">>},
     mask : {<<>>, <<"b">>},
     maskLabel : {<<"0">>},
     outcome : Outcomes]

\* the batches: the sequences of different records
Batches == {<<>>, <<"s1">>, <<"s2">>, <<"s1", "s2">>, <<"s2", "s1">>}

\* the contents a record of a batch can have
Contents(batch, s) == IF s \in Range(batch) THEN Records ELSE {NoRecord}

\* the root holds none, one or both of P (script name a) and N1 (a1)
LoadNext ==
    \/ \E n \in {"P", "N1"} :
          AfterMutation /\ addNode(Root, n) /\ UNCHANGED <<threadVars, nodeInputs>>
    \/ \E n \in {"P", "N1"} :
          AfterMutation /\ removeNode(Root, n) /\ UNCHANGED <<threadVars, nodeInputs>>
    \/ /\ AfterMutation
       /\ \E batch \in Batches, flag \in BOOLEAN :
          \E r1 \in Contents(batch, "s1"), r2 \in Contents(batch, "s2") :
             /\ createNodesFromSerialization(batch, [s \in {"s1", "s2"} |-> IF s = "s1" THEN r1 ELSE r2], flag)
             /\ UNCHANGED threadVars

LoadSpec == Init /\ [][LoadNext]_vars

(***************************************************************************)
(* Calls of the two path-splitting helpers.                                *)
(***************************************************************************)
\* longest path handed to the helpers in the model
MaxPathLen == 4

PathStrings == UNION {[1..k -> {"a", "b", Dot}] : k \in 0..MaxPathLen}

callGetNodeNameAndRemainder(helper, path) ==
    /\ lastCall' = [op |-> helper, n |-> Null, path |-> path,
                    ret |-> IF helper = "getNodeNameAndRemainder_LeftToRight"
                            THEN getNodeNameAndRemainder_LeftToRight(path)
                            ELSE getNodeNameAndRemainder_RightToLeft(path)]
    /\ UNCHANGED structure

PathNext ==
    \/ \E path \in PathStrings :
          callGetNodeNameAndRemainder("getNodeNameAndRemainder_LeftToRight", path) /\ UNCHANGED threadVars
    \/ \E path \in PathStrings :
          callGetNodeNameAndRemainder("getNodeNameAndRemainder_RightToLeft", path) /\ UNCHANGED threadVars

PathSpec == Init /\ [][PathNext]_vars

(***************************************************************************)
(* Loads of a batch of two records whose entries are keyed in every way:   *)
(* by the label of an input, by a number, by another string, by nothing.   *)
(***************************************************************************)
Labels == {<<>>, <<"0">>, <<"1">>, <<"2">>, <<"M">>, <<"x">>}

\* the first record: saved as a, referring to the second one, to a1 or to nothing
LabelRecords ==
    [name : {<<"a">>},
     input : {<<>>, <<"b">>, <<"a", "1">>},
     inputLabel : Labels,
     mask : {<<>>, <<"b">>, <<"a", "1">>},
     maskLabel : Labels,
     outcome : {"created"}]

\* the second record: saved as b, with no entry
TargetRecord ==
    [name |-> <<"b">>, input |-> <<>>, inputLabel |-> <<>>, mask |-> <<>>, maskLabel |-> <<>>,
     outcome |-> "created"]

LabelNext ==
    \/ AfterMutation /\ addNode(Root, "N1") /\ UNCHANGED <<threadVars, nodeInputs>>
    \/ AfterMutation /\ removeNode(Root, "N1") /\ UNCHANGED <<threadVars, nodeInputs>>
    \/ /\ AfterMutation
       /\ \E r1 \in LabelRecords, flag \in BOOLEAN :
             /\ createNodesFromSerialization(<<"s1", "s2">>,
                    [s \in {"s1", "s2"} |-> IF s = "s1" THEN r1 ELSE TargetRecord], flag)
             /\ UNCHANGED threadVars

LabelSpec == Init /\ [][LabelNext]_vars

(***************************************************************************)
(* Round trip: the members P and N1 of the root are wired to each other,   *)
(* saved, and loaded again into the root, where they still are.  A record  *)
(* keeps the entry of the source input and of one mask, keyed by the label *)
(* of the input.                                                           *)
(***************************************************************************)
\* the record of a saved node
recordOf(n) == IF n = "P" THEN "s1" ELSE "s2"

\* the masks of node n that are connected (inputs counted from 1)
ConnectedMasks(w, n) == {i \in 1..Node_getMaxInputCount(n) : isInputMask(n, i - 1) /\ w[n][i] # Null}

\* Node::connectInput(m, index) on node n, index counted from 0
connectInput(n, index, m) ==
    /\ {n, m} \subseteq Range(nodes[Root])
    /\ n # m
    /\ nodeInputs[n][index + 1] = Null
    /\ isInputMask(n, index) => ConnectedMasks(nodeInputs, n) = {}
    /\ nodeInputs' = swapInputAt(nodeInputs, n, m, index)
    /\ lastCall' = [op |-> "connectInput", n |-> Null]
    /\ UNCHANGED <<nodes, inputs, outputs, isActivatingGroup, isDeactivatingGroup>>

\* the script name saved for the node in an input, <<>> for a free input
SavedName(n) == IF n = Null THEN <<>> ELSE getScriptName(n)

\* NodeSerialization of node n with wiring w
Serialize(w, n) ==
    LET masks == ConnectedMasks(w, n)
    IN  [name |-> getScriptName(n),
         input |-> SavedName(w[n][1]),
         inputLabel |-> InputLabels[1],
         mask |-> IF masks = {} THEN <<>> ELSE SavedName(w[n][FirstSlot(masks)]),
         maskLabel |-> IF masks = {} THEN <<>> ELSE InputLabels[FirstSlot(masks)],
         outcome |-> "created"]

\* the records of the members of the root, in the order of the membership
SerializeAll(w, members) == [i \in 1..Len(members) |-> recordOf(members[i])]

RoundNext ==
    \/ \E n \in SavedNodes :
          /\ lastCall.op # "createNodesFromSerialization"
          /\ addNode(Root, n)
          /\ UNCHANGED <<threadVars, nodeInputs>>
    \/ \E n, m \in SavedNodes, index \in 0..2 :
          /\ lastCall.op # "createNodesFromSerialization"
          /\ connectInput(n, index, m)
          /\ UNCHANGED threadVars
    \/ /\ lastCall.op # "createNodesFromSerialization"
       /\ nodes[Root] # <<>>
       /\ createNodesFromSerialization(
              SerializeAll(nodeInputs, nodes[Root]),
              [s \in {"s1", "s2"} |-> IF s = "s1" THEN Serialize(nodeInputs, "P")
                                                  ELSE Serialize(nodeInputs, "N1")],
              FALSE)
       /\ UNCHANGED threadVars

RoundSpec == Init /\ [][RoundNext]_vars

(***************************************************************************)
(* Threads.  One thread changes the membership (addNode, removeNode) and   *)
(* the others read it.  A call is a frame on its thread's stack; a frame   *)
(* starts at pc "lock", in front of the QMutexLocker of its function.      *)
(* nodesMutex is a plain QMutex (not recursive): it is taken only when no  *)
(* thread holds it, the calling thread included.                           *)
(***************************************************************************)
Frame(fn, c) ==
    [fn |-> fn, c |-> c, pc |-> "lock", i |-> 0, acc |-> <<>>, grps |-> <<>>,
     name |-> <<>>, rest |-> <<>>, n |-> Null, onlyActive |-> FALSE]

Top(t) == stack[t][Len(stack[t])]

Running(t, fn, pc) == stack[t] # <<>> /\ Top(t).fn = fn /\ Top(t).pc = pc

SetTop(t, f) == [stack EXCEPT ![t] = SubSeq(@, 1, Len(@) - 1) \o <<f>>]

Pop(t) == [stack EXCEPT ![t] = SubSeq(@, 1, Len(@) - 1)]

\* the top frame replaced by f and the frame g of a nested call pushed on it
Call(t, f, g) == [stack EXCEPT ![t] = SubSeq(@, 1, Len(@) - 1) \o <<f, g>>]

\* QMutexLocker's constructor returns only when the mutex is free
MutexAlwaysFree(c) == TRUE

MutexFree(c) == nodesMutex[c] = Null

\* isGrp->...: the collection a traversal of c enters when member n is a group
NestedSelf(c, n) == c

NestedCollection(c, n) == n

\* QMutexLocker k(&_imp->nodesMutex)
Acquire(t) ==
    /\ stack[t] # <<>>
    /\ Top(t).pc = "lock"
    /\ MutexFree(Top(t).c)
    /\ nodesMutex' = [nodesMutex EXCEPT ![Top(t).c] = t]
    /\ stack' = SetTop(t, [Top(t) EXCEPT !.pc = "locked"])
    /\ UNCHANGED <<structure, nodesLock, lastCall, seen>>

\* ---- NodeCollection::getNodes: copy the list under the lock, return the copy
StartGetNodes(t, c) ==
    /\ stack[t] = <<>>
    /\ stack' = [stack EXCEPT ![t] = <<Frame("getNodes", c)>>]
    /\ seen' = [seen EXCEPT ![t] = {nodes[c]}]
    /\ UNCHANGED <<structure, nodesLock, lastCall, nodesMutex>>

\* the copy constructor of std::list, one element at a time
GetNodesCopy(t) ==
    /\ Running(t, "getNodes", "locked")
    /\ Top(t).i < Len(nodes[Top(t).c])
    /\ stack' = SetTop(t, [Top(t) EXCEPT !.i = @ + 1,
                                         !.acc = Append(@, nodes[Top(t).c][Top(t).i + 1])])
    /\ UNCHANGED <<structure, nodesLock, lastCall, nodesMutex, seen>>

\* the copy is complete: the locker is destroyed and the copy handed to the caller
GetNodesReturn(t) ==
    /\ Running(t, "getNodes", "locked")
    /\ Top(t).i >= Len(nodes[Top(t).c])
    /\ nodesMutex' = [nodesMutex EXCEPT ![Top(t).c] = Null]
    /\ stack' = SetTop(t, [Top(t) EXCEPT !.pc = "done"])
    /\ UNCHANGED <<structure, nodesLock, lastCall, seen>>

\* the caller drops the list it was given
GetNodesDrop(t) ==
    /\ Running(t, "getNodes", "done")
    /\ stack' = Pop(t)
    /\ seen' = [seen EXCEPT ![t] = {}]
    /\ UNCHANGED <<structure, nodesLock, lastCall, nodesMutex>>

\* ---- NodeCollection::getNodes_recursive
StartGetNodesRecursive(t, c, onlyActive) ==
    /\ stack[t] = <<>>
    /\ stack' = [stack EXCEPT ![t] = <<[Frame("getNodes_recursive", c) EXCEPT !.onlyActive = onlyActive]>>]
    /\ UNCHANGED <<structure, nodesLock, lastCall, nodesMutex, seen>>

\* the locked block: fill groupToRecurse, leave the block (unlock)
RecursiveScan(t) ==
    /\ Running(t, "getNodes_recursive", "locked")
    /\ nodesMutex' = [nodesMutex EXCEPT ![Top(t).c] = Null]
    /\ stack' = SetTop(t, [Top(t) EXCEPT !.pc = "recurse",
                                         !.grps = groupToRecurse(Top(t).c, Top(t).onlyActive)])
    /\ UNCHANGED <<structure, nodesLock, lastCall, seen>>

\* the second loop: the next queued group is visited, or the function returns
RecursiveDescend(t) ==
    /\ Running(t, "getNodes_recursive", "recurse")
    /\ stack' = IF Top(t).grps = <<>>
                THEN Pop(t)
                ELSE Call(t, [Top(t) EXCEPT !.grps = Tail(@)],
                          [Frame("getNodes_recursive", Head(Top(t).grps))
                             EXCEPT !.onlyActive = Top(t).onlyActive])
    /\ UNCHANGED <<structure, nodesLock, lastCall, nodesMutex, seen>>

\* ---- NodeCollection::getActiveNodesExpandGroups (getViewers and getWriters
\* have the same shape): the loop runs, and calls into each group, inside the
\* scope of the locker
StartExpandGroups(t, c) ==
    /\ stack[t] = <<>>
    /\ stack' = [stack EXCEPT ![t] = <<Frame("getActiveNodesExpandGroups", c)>>]
    /\ UNCHANGED <<structure, nodesLock, lastCall, nodesMutex, seen>>

\* index of the first group member after position i, 0 when there is none
NextGroupIndex(c, i) ==
    IF \E j \in (i + 1)..Len(nodes[c]) : isEffectNodeGroup(nodes[c][j])
    THEN CHOOSE j \in (i + 1)..Len(nodes[c]) :
            /\ isEffectNodeGroup(nodes[c][j])
            /\ \A k \in (i + 1)..(j - 1) : ~isEffectNodeGroup(nodes[c][k])
    ELSE 0

ExpandGroupsLoop(t) ==
    /\ Running(t, "getActiveNodesExpandGroups", "locked")
    /\ LET f == Top(t)
           j == NextGroupIndex(f.c, f.i)
       IN  IF j = 0
           THEN /\ nodesMutex' = [nodesMutex EXCEPT ![f.c] = Null]
                /\ stack' = Pop(t)
           ELSE /\ stack' = Call(t, [f EXCEPT !.i = j],
                                 Frame("getActiveNodesExpandGroups", NestedCollection(f.c, nodes[f.c][j])))
                /\ UNCHANGED nodesMutex
    /\ UNCHANGED <<structure, nodesLock, lastCall, seen>>

\* ---- NodeCollection::getNodeByFullySpecifiedName / getNodeByName, through
\* NodeCollectionPrivate::findNodeInternal: the nested lookup is called inside
\* the scope of the locker
StartLookup(t, c, path) ==
    /\ stack[t] = <<>>
    /\ LET split == getNodeNameAndRemainder_LeftToRight(path)
       IN  stack' = [stack EXCEPT ![t] =
                        <<[Frame("findNodeInternal", c) EXCEPT !.name = split.name,
                                                               !.rest = split.remainder]>>]
    /\ UNCHANGED <<structure, nodesLock, lastCall, nodesMutex, seen>>

\* index of the member at which the scan of findNodeInternal ends, 0 when it
\* runs to the end of the list
ScanStop(c, name, rest) ==
    LET stops(k) == /\ getScriptName(nodes[c][k]) = name
                    /\ (rest = <<>> \/ isEffectNodeGroup(nodes[c][k]))
    IN  IF \E k \in 1..Len(nodes[c]) : stops(k)
        THEN CHOOSE k \in 1..Len(nodes[c]) : stops(k) /\ \A j \in 1..(k - 1) : ~stops(j)
        ELSE 0

FindScan(t) ==
    /\ Running(t, "findNodeInternal", "locked")
    /\ LET f == Top(t)
           k == ScanStop(f.c, f.name, f.rest)
       IN  IF k = 0 \/ f.rest = <<>>
           THEN /\ nodesMutex' = [nodesMutex EXCEPT ![f.c] = Null]
                /\ stack' = Pop(t)
           ELSE LET split == getNodeNameAndRemainder_LeftToRight(f.rest)
                IN  /\ stack' = Call(t, [f EXCEPT !.pc = "return"],
                                     [Frame("findNodeInternal", NestedCollection(f.c, nodes[f.c][k]))
                                        EXCEPT !.name = split.name, !.rest = split.remainder])
                    /\ UNCHANGED nodesMutex
    /\ UNCHANGED <<structure, nodesLock, lastCall, seen>>

\* the nested lookup has returned: its result is returned, the locker destroyed
FindReturn(t) ==
    /\ Running(t, "findNodeInternal", "return")
    /\ nodesMutex' = [nodesMutex EXCEPT ![Top(t).c] = Null]
    /\ stack' = Pop(t)
    /\ UNCHANGED <<structure, nodesLock, lastCall, seen>>

\* ---- addNode and removeNode as calls of the mutating thread
\* a getNodes call of thread u on collection c that has not returned yet
InGetNodes(u, c) ==
    stack[u] # <<>> /\ Top(u).fn = "getNodes" /\ Top(u).c = c /\ Top(u).pc # "done"

\* seen, once the membership list of c has been given its new value
SeenAfterChange(c) ==
    [u \in Threads |-> IF InGetNodes(u, c) THEN seen[u] \cup {nodes'[c]} ELSE seen[u]]

StartMutation(t, fn, c, n) ==
    /\ stack[t] = <<>>
    /\ getGroup(n) = c
    /\ fn = "addNode" => n \notin Range(nodes[c])
    /\ stack' = [stack EXCEPT ![t] = <<[Frame(fn, c) EXCEPT !.n = n]>>]
    /\ UNCHANGED <<structure, nodesLock, lastCall, nodesMutex, seen>>

\* the locked part of addNode (push_back) or of removeNode (erase, onNodeRemoved)
MutationBody(t) ==
    /\ stack[t] # <<>>
    /\ Top(t).pc = "locked"
    /\ Top(t).fn \in {"addNode", "removeNode"}
    /\ LET c == Top(t).c
           n == Top(t).n
       IN  \/ /\ Top(t).fn = "addNode"
              /\ nodes' = [nodes EXCEPT ![c] = PushBack(nodes[c], n)]
              /\ UNCHANGED <<inputs, outputs>>
           \/ /\ Top(t).fn = "removeNode"
              /\ nodes' = [nodes EXCEPT ![c] = EraseFirst(nodes[c], n)]
              /\ IF c \in Groups
                 THEN /\ inputs' = [inputs EXCEPT ![c] = onNodeRemovedInputs(inputs[c], n)]
                      /\ outputs' = [outputs EXCEPT ![c] = onNodeRemovedOutputs(outputs[c], n)]
                 ELSE UNCHANGED <<inputs, outputs>>
    /\ nodesMutex' = [nodesMutex EXCEPT ![Top(t).c] = Null]
    /\ stack' = Pop(t)
    /\ seen' = SeenAfterChange(Top(t).c)
    /\ UNCHANGED <<isActivatingGroup, isDeactivatingGroup, nodeInputs, lastCall, nodesLock>>

\* ---- NodeCollection::clearNodesInternal as a call of the mutating thread:
\* copy the list under the lock, clear every member group, destroy every
\* copied node (Node::destroyNode, the node's own teardown), then take the lock
\* again and clear the list
StartClearNodes(t, c) ==
    /\ stack[t] = <<>>
    /\ stack' = [stack EXCEPT ![t] = <<Frame("clearNodesInternal", c)>>]
    /\ UNCHANGED <<structure, nodesLock, lastCall, nodesMutex, seen>>

\* first locked block: nodesToDelete = _imp->nodes
ClearNodesCopy(t) ==
    /\ Running(t, "clearNodesInternal", "locked")
    /\ Top(t).i = 0
    /\ nodesMutex' = [nodesMutex EXCEPT ![Top(t).c] = Null]
    /\ stack' = SetTop(t, [Top(t) EXCEPT !.pc = "recurse", !.acc = nodes[Top(t).c],
                                         !.grps = SelectGroups(nodes[Top(t).c])])
    /\ UNCHANGED <<structure, nodesLock, lastCall, seen>>

\* first loop: isGrp->clearNodesInternal() for the next group of nodesToDelete;
\* after it the second loop destroys the nodes and the second lock is asked for
ClearNodesDescend(t) ==
    /\ Running(t, "clearNodesInternal", "recurse")
    /\ stack' = IF Top(t).grps = <<>>
                THEN SetTop(t, [Top(t) EXCEPT !.pc = "lock", !.i = 1])
                ELSE Call(t, [Top(t) EXCEPT !.grps = Tail(@)],
                          Frame("clearNodesInternal", Head(Top(t).grps)))
    /\ UNCHANGED <<structure, nodesLock, lastCall, nodesMutex, seen>>

\* second locked block: _imp->nodes.clear()
ClearNodesClear(t) ==
    /\ Running(t, "clearNodesInternal", "locked")
    /\ Top(t).i = 1
    /\ nodes' = [nodes EXCEPT ![Top(t).c] = <<>>]
    /\ nodesMutex' = [nodesMutex EXCEPT ![Top(t).c] = Null]
    /\ stack' = Pop(t)
    /\ seen' = SeenAfterChange(Top(t).c)
    /\ UNCHANGED <<inputs, outputs, isActivatingGroup, isDeactivatingGroup, nodeInputs, lastCall, nodesLock>>

\* the nodes the mutating thread adds and removes
ConcNodes == {"P", "C"}

\* the path looked up by the reading threads: it leads through both groups
ConcPath == <<"a", ".", "b", ".", "c">>

\* the steps thread t takes inside a call it has started
ThreadStep(t) ==
    \/ Acquire(t)
    \/ GetNodesCopy(t)
    \/ GetNodesReturn(t)
    \/ GetNodesDrop(t)
    \/ RecursiveScan(t)
    \/ RecursiveDescend(t)
    \/ ExpandGroupsLoop(t)
    \/ FindScan(t)
    \/ FindReturn(t)
    \/ MutationBody(t)

\* The traversals start at the root, so that they pass through every level;
\* getNodes is called on the innermost collection.
ConcNext ==
    \/ \E t \in Threads : Acquire(t)
    \/ \E t \in Readers : StartGetNodes(t, "B")
    \/ \E t \in Readers : GetNodesCopy(t)
    \/ \E t \in Readers : GetNodesReturn(t)
    \/ \E t \in Readers : GetNodesDrop(t)
    \/ \E t \in Readers : StartGetNodesRecursive(t, Root, FALSE)
    \/ \E t \in Readers : RecursiveScan(t)
    \/ \E t \in Readers : RecursiveDescend(t)
    \/ \E t \in Readers : StartExpandGroups(t, Root)
    \/ \E t \in Readers : ExpandGroupsLoop(t)
    \/ \E t \in Readers : StartLookup(t, Root, ConcPath)
    \/ \E t \in Readers : FindScan(t)
    \/ \E t \in Readers : FindReturn(t)
    \/ \E c \in Collections, n \in ConcNodes, fn \in {"addNode", "removeNode"} :
          StartMutation(Mutator, fn, c, n)
    \/ MutationBody(Mutator)

\* The tree after addNode(P) and addNode(A) on the root and addNode(B) on A:
\* three nested collections, each with its own mutex.
ConcInit ==
    /\ nodesMutex = [c \in Collections |-> Null]
    /\ nodesLock = [g \in Groups |-> Null]
    /\ stack = [t \in Threads |-> <<>>]
    /\ seen = [t \in Threads |-> {}]
    /\ nodes = [c \in Collections |-> IF c = Root THEN <<"P", "A">> ELSE IF c = "A" THEN <<"B">> ELSE <<>>]
    /\ inputs = [g \in Groups |-> <<>>]
    /\ outputs = [g \in Groups |-> <<>>]
    /\ isActivatingGroup = [g \in Groups |-> FALSE]
    /\ isDeactivatingGroup = [g \in Groups |-> FALSE]
    /\ nodeInputs = [n \in WireNodes \cup LoadNodes \cup SavedNodes |-> [i \in 1..Node_getMaxInputCount(n) |-> Null]]
    /\ lastCall = [op |-> "none", n |-> Null]

\* A thread that can take a step again and again does take it: a QMutex that
\* is unlocked again and again is eventually given to a thread waiting for it,
\* and a running thread is eventually scheduled.
ConcSpec == ConcInit /\ [][ConcNext]_vars /\ \A t \in Threads : SF_vars(ThreadStep(t))

(***************************************************************************)
(* One reader calling getNodes while the mutating thread adds, removes and *)
(* clears.                                                                 *)
(***************************************************************************)
SnapshotReader == "r1"

SnapshotNext ==
    \/ \E t \in {Mutator, SnapshotReader} : Acquire(t)
    \/ \E c \in Collections : StartGetNodes(SnapshotReader, c)
    \/ GetNodesCopy(SnapshotReader)
    \/ GetNodesReturn(SnapshotReader)
    \/ GetNodesDrop(SnapshotReader)
    \/ \E c \in Collections, n \in ConcNodes, fn \in {"addNode", "removeNode"} :
          StartMutation(Mutator, fn, c, n)
    \/ MutationBody(Mutator)
    \/ \E c \in Collections : StartClearNodes(Mutator, c)
    \/ ClearNodesCopy(Mutator)
    \/ ClearNodesDescend(Mutator)
    \/ ClearNodesClear(Mutator)

SnapshotSpec == ConcInit /\ [][SnapshotNext]_vars

(***************************************************************************)
(* Membership properties.                                                  *)
(***************************************************************************)
ScriptNamesOf(s) == {getScriptName(s[i]) : i \in 1..Len(s)}

NoDuplicateScriptNames(s) ==
    \A i, j \in 1..Len(s) : i # j => getScriptName(s[i]) # getScriptName(s[j])

\* C1 (as stated): after any sequence of addNode and removeNode calls, no two
\* members of a collection have the same script identifier.
C1_NoDuplicateScriptNames == \A c \in Collections : NoDuplicateScriptNames(nodes[c])

\* C1 (amended): a call keeps the members' script identifiers pairwise distinct
\* provided every node handed to addNode has a script identifier that no current
\* member of the collection has; addNode itself checks nothing.
C1_UniqueWhenCallerResolvedName ==
    [][\A c \in Collections :
          ( /\ NoDuplicateScriptNames(nodes[c])
            /\ (lastCall'.op = "addNode" /\ Len(nodes'[c]) > Len(nodes[c]))
                  => getScriptName(nodes'[c][Len(nodes'[c])]) \notin ScriptNamesOf(nodes[c]) )
          => NoDuplicateScriptNames(nodes'[c])]_vars

\* C1 witness: nodes with fresh names were added and one was removed again,
\* leaving a collection of three distinctly named members.
C1_Witness ==
    /\ lastCall.op = "addNode"
    /\ Len(nodes["A"]) = 3
    /\ Len(nodes[Root]) = 1
    /\ C1_NoDuplicateScriptNames

\* C2: after removeNode(n) has returned on a group, n is neither in the group's
\* input list nor in its output set.
C2_RemovedNodeLeavesNoPortEntry ==
    (lastCall.op = "removeNode" /\ lastCall.n # Null /\ getGroup(lastCall.n) \in Groups)
        => /\ lastCall.n \notin Range(inputs[getGroup(lastCall.n)])
           /\ lastCall.n \notin Range(outputs[getGroup(lastCall.n)])

\* C3: removeNode with null or with a node that is not a member changes neither
\* the membership list nor a group's input list and output set.
C3_RemoveAbsentIsNoOp ==
    [][( /\ lastCall'.op = "removeNode"
         /\ \/ lastCall'.n = Null
            \/ lastCall'.n \notin Range(nodes[getGroup(lastCall'.n)]) )
       => UNCHANGED <<nodes, inputs, outputs>>]_vars

(***************************************************************************)
(* Traversal and lookup properties.                                        *)
(***************************************************************************)
\* every node of the containment tree below collection c
RECURSIVE TreeBelow(_)
TreeBelow(c) ==
    Range(nodes[c]) \cup UNION {TreeBelow(g) : g \in {m \in Range(nodes[c]) : isEffectNodeGroup(m)}}

\* C5: for both values of onlyActive, getNodes_recursive returns every node of
\* the containment tree below the collection.
C5_RecursiveListsWholeTree ==
    lastCall.op = "getNodes_recursive" => Range(lastCall.ret) = TreeBelow(lastCall.c)

\* C8: getActiveNodesExpandGroups returns every node of the tree below the
\* collection exactly once, each group before every node of its nested
\* collection, and the members of one level in their membership order.
C8_ExpandGroupsIsPreorder ==
    lastCall.op = "getActiveNodesExpandGroups" =>
        LET ret == lastCall.ret
            tree == TreeBelow(lastCall.c)
        IN  /\ Range(ret) = tree
            /\ Len(ret) = Cardinality(tree)
            /\ \A g \in tree : isEffectNodeGroup(g) =>
                  \A m \in TreeBelow(g) : IndexOf(ret, g) < IndexOf(ret, m)
            /\ \A d \in {lastCall.c} \cup {g \in tree : isEffectNodeGroup(g)} :
                  \A i, j \in 1..Len(nodes[d]) :
                     i < j => IndexOf(ret, nodes[d][i]) < IndexOf(ret, nodes[d][j])

\* C8 witness: the whole three-level tree was expanded from the root, with the
\* group A not the last member of the root.
C8_Witness ==
    /\ lastCall.op = "getActiveNodesExpandGroups"
    /\ lastCall.c = Root
    /\ nodes[Root] = <<"A", "P">>
    /\ Len(lastCall.ret) = Cardinality(Nodes)

\* the nodes a sequence of segments addresses from collection c: the members
\* named by the last segment in the collection reached through groups named by
\* the segments before it
RECURSIVE Addressed(_, _)
Addressed(c, segs) ==
    LET named == {m \in Range(nodes[c]) : getScriptName(m) = Head(segs)}
    IN  IF Len(segs) = 1 THEN named
        ELSE UNION {Addressed(g, Tail(segs)) : g \in {m \in named : isEffectNodeGroup(m)}}

C10_InvalidNameFailsFirst ==
    lastCall.op = "checkNodeName" =>
        LET invalid == \/ lastCall.baseName = <<>>
                       \/ makeNameScriptFriendly(lastCall.baseName) = <<>>
        IN  /\ (lastCall.ret.status = "invalid-name") <=> invalid
            /\ invalid => (lastCall.ret.nodeName = OutBefore /\ lastCall.ret.reads = 0)

\* C10 witness: a base name of punctuation only was refused in a collection
\* that has members.
C10_Witness ==
    /\ lastCall.op = "checkNodeName"
    /\ lastCall.baseName = <<"-", "-">>
    /\ lastCall.ret.status = "invalid-name"
    /\ Len(nodes[lastCall.c]) > 0

\* C11: in a group, a name checkNodeName returns is never the name of a
\* parameter of the group, a suffixed name included.
C11_NameIsNeverAKnobName ==
    (lastCall.op = "checkNodeName" /\ lastCall.c \in Groups /\ lastCall.ret.status = "ok")
        => lastCall.ret.nodeName \notin getKnobs(lastCall.c)

\* name is the script identifier of a member of c other than node
UsedByOther(c, node, name) ==
    \E m \in Range(nodes[c]) : m # node /\ getScriptName(m) = name

\* C12: a name checkNodeName returns is used by no member other than the node
\* passed in; with appendDigit and without errorIfExists it is the normalized
\* base name followed by the smallest k >= 1 that gives an unused name, and
\* without appendDigit it is the normalized base name itself.
C12_ReturnedNameIsSmallestFree ==
    (lastCall.op = "checkNodeName" /\ lastCall.ret.status = "ok") =>
        LET cpy == makeNameScriptFriendly(lastCall.baseName)
            c == lastCall.c
            name == lastCall.ret.nodeName
        IN  /\ ~UsedByOther(c, lastCall.node, name)
            /\ (lastCall.appendDigit /\ ~lastCall.errorIfExists) =>
                   \E k \in 1..(Len(nodes[c]) + 1) :
                       /\ name = cpy \o IntToStr(k)
                       /\ \A j \in 1..(k - 1) : UsedByOther(c, lastCall.node, cpy \o IntToStr(j))
            /\ ~lastCall.appendDigit => name = cpy

\* C12 witness: with members named a, a1 and a2 the name a3 was returned.
C12_Witness ==
    /\ lastCall.op = "checkNodeName"
    /\ lastCall.c = Root
    /\ lastCall.node = Null
    /\ lastCall.appendDigit /\ ~lastCall.errorIfExists
    /\ lastCall.ret.status = "ok"
    /\ lastCall.ret.nodeName = <<"a", "3">>

\* C13: a call that gets past the checks of the base name ends with a
\* name-exists error exactly when its first candidate (the normalized base
\* name, followed by 1 with appendDigit) is the name of a member other than the
\* node passed in and errorIfExists is set or appendDigit is not; a member
\* does not collide with itself.
C13_NameExistsOnFirstCandidate ==
    lastCall.op = "checkNodeName" =>
        LET cpy == makeNameScriptFriendly(lastCall.baseName)
            first == IF lastCall.appendDigit THEN cpy \o IntToStr(1) ELSE cpy
            passed == cpy # <<>> /\ ~(lastCall.c \in Groups /\ cpy \in getKnobs(lastCall.c))
        IN  /\ passed =>
                  ( lastCall.ret.status = "name-exists"
                      <=> /\ UsedByOther(lastCall.c, lastCall.node, first)
                          /\ (lastCall.errorIfExists \/ ~lastCall.appendDigit) )
            /\ ~passed => lastCall.ret.status # "name-exists"

\* C13 witness: N1, a member named a1, was checked for the name a1 with
\* errorIfExists set while another member is named a, and the call succeeded.
C13_Witness ==
    /\ lastCall.op = "checkNodeName"
    /\ lastCall.c = Root
    /\ lastCall.node = "N1"
    /\ nodes[Root] = <<"P", "N1">>
    /\ lastCall.baseName = <<"a">>
    /\ lastCall.appendDigit /\ lastCall.errorIfExists
    /\ lastCall.ret = [status |-> "ok", nodeName |-> <<"a", "1">>, reads |-> 1]

C15_LoopEndsWithinMembersPlusOne ==
    lastCall.op = "checkNodeName" =>
        /\ lastCall.ret.status \in {"ok", "name-exists", "invalid-name", "knob-conflict"}
        /\ lastCall.ret.reads <= Len(nodes[lastCall.c]) + 1

\* C15 witness: with the two members a1 and a2 the loop tried three candidates.
C15_Witness ==
    /\ lastCall.op = "checkNodeName"
    /\ lastCall.c = Root
    /\ nodes[Root] = <<"N2", "N1">>
    /\ lastCall.ret.status = "ok"
    /\ lastCall.ret.reads = 3

\* name is base followed by the smallest k >= 1 for which no member of c has
\* the name
SmallestFreeSuffix(c, base, name) ==
    \E k \in 1..(Len(nodes[c]) + 1) :
        /\ name = base \o IntToStr(k)
        /\ \A j \in 1..(k - 1) : UsedByOther(c, Null, base \o IntToStr(j))

\* C16: the name initNodeName gives an output plugin is the base name when no
\* member has it and the base name with the smallest free suffix when one has;
\* the name it gives any other plugin is always the base name with the smallest
\* free suffix.
C16_OutputPluginUnsuffixed ==
    (lastCall.op = "initNodeName" /\ lastCall.ret.status = "ok") =>
        LET base == makeNameScriptFriendly(initNodeNameBase(lastCall.pluginLabel))
            c == lastCall.c
            name == lastCall.ret.nodeName
        IN  IF lastCall.pluginID = PLUGINID_NATRON_OUTPUT /\ ~UsedByOther(c, Null, base)
            THEN name = base
            ELSE SmallestFreeSuffix(c, base, name)

\* C16 witness: an output plugin labelled aOFX was named a1 because a member
\* is named a.
C16_Witness ==
    /\ lastCall.op = "initNodeName"
    /\ lastCall.pluginID = PLUGINID_NATRON_OUTPUT
    /\ lastCall.pluginLabel = <<"a", "O", "F", "X">>
    /\ lastCall.c = Root
    /\ "P" \in Range(nodes[Root])
    /\ lastCall.ret.status = "ok"
    /\ lastCall.ret.nodeName = <<"a", "1">>

\* the smallest and the largest element of a non-empty set of integers
MinOf(S) == CHOOSE x \in S : \A y \in S : x <= y

MaxOf(S) == CHOOSE x \in S : \A y \in S : x >= y

\* C17: when the tree below the collection holds a reader,
\* recomputeFrameRangeForAllReaders returns the least of the readers' range
\* minima and the greatest of their range maxima, whatever the arguments held.
C17_FrameRangeIsUnionOfReaders ==
    lastCall.op = "recomputeFrameRangeForAllReaders" =>
        LET readers == {n \in TreeBelow(lastCall.c) : isReader(n)}
        IN  readers # {} =>
               /\ lastCall.ret.first = MinOf({getFrameRange(n).min : n \in readers})
               /\ lastCall.ret.last = MaxOf({getFrameRange(n).max : n \in readers})

(***************************************************************************)
(* Teardown properties.                                                    *)
(***************************************************************************)
\* every node of the containment tree below c in the lists ns
RECURSIVE TreeBelowIn(_, _)
TreeBelowIn(ns, c) ==
    Range(ns[c]) \cup UNION {TreeBelowIn(ns, g) : g \in {m \in Range(ns[c]) : isEffectNodeGroup(m)}}

\* positions of the calls ev made on node n in the log
Calls(log, ev, n) == {i \in 1..Len(log) : log[i] = Event(ev, n)}

Cleared == lastCall.op \in {"clearNodesBlocking", "clearNodesNonBlocking"}

\* C18: in a teardown every node of the tree is destroyed, each node of a
\* nested collection before the group node it is nested in, and afterwards the
\* list of the collection and of every nested group is empty.
C18_NestedDestroyedBeforeGroup ==
    Cleared =>
        LET log == lastCall.log
            tree == TreeBelowIn(lastCall.before, lastCall.c)
        IN  /\ \A n \in tree : Cardinality(Calls(log, "destroyNode", n)) = 1
            /\ \A g \in tree : isEffectNodeGroup(g) =>
                  \A m \in TreeBelowIn(lastCall.before, g) :
                     \A i \in Calls(log, "destroyNode", m), j \in Calls(log, "destroyNode", g) : i < j
            /\ nodes[lastCall.c] = <<>>
            /\ \A g \in tree : isEffectNodeGroup(g) => nodes[g] = <<>>

\* C18 witness: the three-level tree of all six nodes was torn down from the
\* root.
C18_Witness ==
    /\ Cleared
    /\ lastCall.c = Root
    /\ TreeBelowIn(lastCall.before, Root) = Nodes
    /\ nodes = [c \in Collections |-> <<>>]

\* C19: in the blocking teardown every node of the tree is asked to quit, and
\* every such call is made (and has returned) before the first destroyNode.
C19_AllQuitBeforeAnyDestroy ==
    lastCall.op = "clearNodesBlocking" =>
        LET log == lastCall.log
            tree == TreeBelowIn(lastCall.before, lastCall.c)
        IN  /\ \A n \in tree : Calls(log, "quitAnyProcessing_blocking", n) # {}
            /\ \A i, j \in 1..Len(log) :
                  (log[i].ev = "quitAnyProcessing_blocking" /\ log[j].ev = "destroyNode") => i < j

\* C19 witness: the blocking teardown of the three-level tree from the root.
C19_Witness ==
    /\ lastCall.op = "clearNodesBlocking"
    /\ lastCall.c = Root
    /\ TreeBelowIn(lastCall.before, Root) = Nodes
    /\ Len(lastCall.log) = 2 * Cardinality(Nodes)

\* C20: in the non-blocking teardown every node of the tree is asked to
\* cancel (quitAnyProcessing_non_blocking) before it is destroyed.
C20_CancelBeforeDestroy ==
    lastCall.op = "clearNodesNonBlocking" =>
        \A n \in TreeBelowIn(lastCall.before, lastCall.c) :
            \E i \in Calls(lastCall.log, "quitAnyProcessing_non_blocking", n) :
                \A j \in Calls(lastCall.log, "destroyNode", n) : i < j

(***************************************************************************)
(* Properties of the derived input and output lists of a group.            *)
(***************************************************************************)
\* the input terminals that are members of the nested collection of g
MemberInputTerminals(g) == {n \in Range(nodes[g]) : isEffectGroupInput(n)}

\* C21: the visible input count of a group is the number of input terminals
\* among its members, and getInputs lists exactly those terminals, each once.
C21_InputsAreTheMemberTerminals ==
    \A g \in Groups :
        /\ getMaxInputCount(g) = Cardinality(MemberInputTerminals(g))
        /\ Range(getInputs(g)) = MemberInputTerminals(g)
        /\ \A i, j \in 1..Len(getInputs(g)) : getInputs(g)[i] = getInputs(g)[j] => i = j

\* C22: the output list of a group holds at most one node.
C22_AtMostOneOutput ==
    \A g \in Groups : Cardinality(Range(outputs[g])) <= 1

(***************************************************************************)
(* Wiring properties.  In the state after a call of autoConnectNodes,      *)
(* lastCall.before is the wiring before the call and nodeInputs the wiring *)
(* after it.                                                               *)
(***************************************************************************)
Connected == lastCall.op = "autoConnectNodes"

\* the nodes that hold n in one of their slots, in the wiring w
ConsumersOf(w, n) == {m \in WireNodes : \E i \in 1..Node_getMaxInputCount(m) : w[m][i] = n}

BothSourceless(selected, created) ==
    Node_getMaxInputCount(selected) = 0 /\ Node_getMaxInputCount(created) = 0

BothTerminals(selected, created) == isOutputNode(selected) /\ isOutputNode(created)

\* C23: autoConnectNodes fails and changes no connection when selected and
\* created both have zero inputs, and when both are output terminals.
C23_FailureRulesChangeNothing ==
    (Connected /\ (BothSourceless(lastCall.selected, lastCall.created)
                   \/ BothTerminals(lastCall.selected, lastCall.created)))
        => (~lastCall.ret /\ nodeInputs = lastCall.before)

\* C23 witness: a call on two output terminals, one of them already connected.
C23_Witness ==
    /\ Connected
    /\ BothTerminals(lastCall.selected, lastCall.created)
    /\ lastCall.before[lastCall.selected][1] # Null

\* C24: when neither failure rule applies, created is put into the preferred
\* slot of selected iff selected is an output terminal or created is a
\* sourceless node that is not an output terminal; otherwise selected is put
\* into the preferred slot of created.  The call succeeds iff that slot exists.
C24_DirectionOfConnection ==
    (Connected /\ ~BothSourceless(lastCall.selected, lastCall.created)
               /\ ~BothTerminals(lastCall.selected, lastCall.created))
        => LET selected == lastCall.selected
               created == lastCall.created
               w == lastCall.before
               asInput == isOutputNode(selected)
                          \/ (~isOutputNode(created) /\ Node_getMaxInputCount(created) = 0)
               target == IF asInput THEN selected ELSE created
               source == IF asInput THEN created ELSE selected
               slot == getPreferredInputForConnection(w, target)
           IN  /\ lastCall.ret <=> slot # -1
               /\ lastCall.ret => /\ nodeInputs[target] = [w[target] EXCEPT ![slot] = source]
                                   /\ nodeInputs[source] = w[source]
               /\ (asInput /\ lastCall.ret) => nodeInputs = [w EXCEPT ![selected][slot] = created]

\* C24 witness: selected is an output terminal, created the two-input effect;
\* created has become the input of selected.
C24_Witness ==
    /\ Connected
    /\ lastCall.selected = "W2" /\ lastCall.created = "M2"
    /\ lastCall.ret
    /\ nodeInputs["W2"] = <<"M2">>

\* the splice case: neither node is an output terminal and created has inputs
SpliceCase(selected, created) ==
    ~isOutputNode(selected) /\ ~isOutputNode(created) /\ Node_getMaxInputCount(created) > 0

\* C25: after a successful splice every former consumer of selected holds
\* created in the slots where it held selected and holds selected nowhere, and
\* created holds selected; when created is an output terminal the consumers
\* of selected keep their connections.
C25_SpliceRewiresConsumers ==
    (Connected /\ lastCall.ret) =>
        LET selected == lastCall.selected
            created == lastCall.created
            w == lastCall.before
        IN  /\ SpliceCase(selected, created) =>
                 /\ \A m \in ConsumersOf(w, selected) :
                       \A i \in 1..Node_getMaxInputCount(m) :
                          /\ nodeInputs[m][i] # selected
                          /\ w[m][i] = selected => nodeInputs[m][i] = created
                          /\ w[m][i] # selected => nodeInputs[m][i] = w[m][i]
                 /\ created \in ConsumersOf(nodeInputs, selected)
            /\ (~isOutputNode(selected) /\ isOutputNode(created)) =>
                 /\ \A m \in ConsumersOf(w, selected) : nodeInputs[m] = w[m]
                 /\ created \in ConsumersOf(nodeInputs, selected)

\* C25 witness: a successful splice of the one-input effect between a source
\* and the two-input effect that consumed the source in its second slot.
C25_Witness ==
    /\ Connected /\ lastCall.ret
    /\ lastCall.selected = "R1" /\ lastCall.created = "M1"
    /\ lastCall.before["M2"][2] = "R1"
    /\ nodeInputs["M2"][2] = "M1"
    /\ nodeInputs["M1"] = <<"R1">>

\* C26: a call of autoConnectNodes that returns failure has changed no
\* connection.
C26_FailureChangesNothing ==
    (Connected /\ ~lastCall.ret) => nodeInputs = lastCall.before

(***************************************************************************)
(* Load properties.  In the state after a load, lastCall holds the batch   *)
(* (serializedNodes), the contents of its records (ser), the flag, the     *)
(* state the load started from (before) and the state it ended in (done).  *)
(***************************************************************************)
Loaded == lastCall.op = "createNodesFromSerialization"

BatchRecords == Range(lastCall.serializedNodes)

\* the records of the batch that have a node in the map
CreatedRecords == lastCall.done.created

\* the nodes created from the records with the saved name
CreatedFrom(name) == {createdNodeOf(s) : s \in {t \in CreatedRecords : lastCall.ser[t].name = name}}

\* the references of record s: <<slot, referred name>>
References(s) ==
    {ref \in {<<1, lastCall.ser[s].input>>, <<2, lastCall.ser[s].mask>>} : ref[2] # <<>>}

Reverse(seq) == [i \in 1..Len(seq) |-> seq[Len(seq) + 1 - i]]

C28_InBatchMatchFirst ==
    Loaded =>
        \A s \in CreatedRecords : \A ref \in References(s) :
            CreatedFrom(ref[2]) # {} =>
                /\ nodeInputs[createdNodeOf(s)][ref[1]] \in CreatedFrom(ref[2])
                /\ nodeInputs[createdNodeOf(s)][ref[1]] \notin Range(lastCall.before.members)

\* C28 witness: P, whose script name is a, was a member; the record saved as
\* a was created under another script name; with cross-batch resolution
\* permitted the reference to a is wired to the created node.
C28_Witness ==
    /\ Loaded /\ lastCall.flags
    /\ "P" \in Range(lastCall.before.members)
    /\ lastCall.ser["s2"].name = <<"a">> /\ "s2" \in CreatedRecords
    /\ lastCall.done.name["L2"] # <<"a">>
    /\ lastCall.ser["s1"].input = <<"a">> /\ lastCall.ser["s1"].name = <<"b">>
    /\ nodeInputs["L1"][1] = "L2"

\* C29: without cross-batch resolution a created node is wired to nodes of
\* the batch only; with it, a reference to a name that no created record was
\* saved under is wired to the first member that has that script name.
C29_CrossBatchOnlyWhenPermitted ==
    Loaded =>
        /\ ~lastCall.flags =>
              \A s \in CreatedRecords : \A i \in 1..Node_getMaxInputCount(createdNodeOf(s)) :
                 nodeInputs[createdNodeOf(s)][i] \in {Null} \cup {createdNodeOf(t) : t \in CreatedRecords}
        /\ lastCall.flags =>
              \A s \in CreatedRecords : \A ref \in References(s) :
                 CreatedFrom(ref[2]) = {} =>
                    nodeInputs[createdNodeOf(s)][ref[1]]
                       = FirstMemberNamed(lastCall.done, lastCall.done.members, ref[2])

\* C29 witness: without cross-batch resolution, a reference to a, the script
\* name of the member P and the saved name of no record, is left unconnected.
C29_Witness ==
    /\ Loaded /\ ~lastCall.flags
    /\ "P" \in Range(lastCall.before.members)
    /\ "s1" \in CreatedRecords
    /\ lastCall.ser["s1"].input = <<"a">>
    /\ CreatedFrom(<<"a">>) = {}
    /\ nodeInputs["L1"][1] = Null

\* C30: every record is created once; a stub is in the map and wired like any
\* node; a record that yields no node is neither in the map nor in the link
\* restoration; the other records are created and wired, and the load
\* returns failure.
C30_FailedRecordsAreSkipped ==
    Loaded =>
        LET log == lastCall.done.log
            ser == lastCall.ser
        IN  /\ \A s \in BatchRecords : Cardinality(Calls(log, "createNode", s)) = 1
            /\ \A s \in BatchRecords :
                  /\ ser[s].outcome # "failed" =>
                        /\ s \in CreatedRecords
                        /\ createdNodeOf(s) \in Range(nodes[Root])
                        /\ Calls(log, "restoreInput", s) # {}
                        /\ Calls(log, "restoreKnobsLinks", s) # {}
                  /\ ser[s].outcome = "failed" =>
                        /\ s \notin CreatedRecords
                        /\ Calls(log, "restoreInput", s) = {}
                        /\ Calls(log, "restoreKnobsLinks", s) = {}
            /\ (\E s \in BatchRecords : ser[s].outcome # "created") => ~lastCall.ret

(***************************************************************************)
(* Path-splitting properties.                                              *)
(***************************************************************************)
\* a path with a dot that is neither its first nor its last character
InnerDot(path) ==
    /\ Dot \in Range(path)
    /\ path[1] # Dot
    /\ path[Len(path)] # Dot

\* C39: for a path with an inner dot, the left-to-right helper gives the text
\* before the first dot and the text after it, the right-to-left helper the
\* text after the last dot and the text before it, and joining the two parts
\* with a dot gives the path back.
C39_SplitIsInverseOfJoin ==
    /\ (lastCall.op = "getNodeNameAndRemainder_LeftToRight" /\ InnerDot(lastCall.path)) =>
          /\ Dot \notin Range(lastCall.ret.name)
          /\ lastCall.ret.name \o <<Dot>> \o lastCall.ret.remainder = lastCall.path
    /\ (lastCall.op = "getNodeNameAndRemainder_RightToLeft" /\ InnerDot(lastCall.path)) =>
          /\ Dot \notin Range(lastCall.ret.name)
          /\ lastCall.ret.remainder \o <<Dot>> \o lastCall.ret.name = lastCall.path

(***************************************************************************)
(* Properties of the lookups on the derived lists of a group.              *)
(***************************************************************************)
\* the lookups give the front of the output list, its first input, and the
\* input of the group at the position of the terminal
LookupsFollowTheLists ==
    \A g \in Groups :
        /\ outputs[g] = <<>> => (getOutputNode(g) = Null /\ getOutputNodeInput(g) = Null)
        /\ outputs[g] # <<>> =>
              /\ getOutputNode(g) = outputs[g][1]
              /\ getOutputNodeInput(g) = getInput(outputs[g][1], 0)
        /\ \A t \in PortNodes :
              /\ t \notin Range(inputs[g]) => getRealInputForInput(g, 0, t) = Null
              /\ t \in Range(inputs[g]) =>
                    getRealInputForInput(g, 0, t) = getInput(g, IndexOf(inputs[g], t) - 1)

\* a step that takes the entry at position p out of the input list of g
ErasedAt(g, p) ==
    /\ p \in 1..Len(inputs[g])
    /\ inputs'[g] = SubSeq(inputs[g], 1, p - 1) \o SubSeq(inputs[g], p + 1, Len(inputs[g]))

\* when a step takes an entry out, every terminal that came after it maps to
\* the slot one lower
LaterTerminalsShift ==
    \A g \in Groups : \A p \in 1..Len(inputs[g]) :
        ErasedAt(g, p) =>
            \A t \in PortNodes :
                (t \in Range(inputs[g]) /\ IndexOf(inputs[g], t) > p) =>
                    (getRealInputForInput(g, 0, t))' = getInput(g, IndexOf(inputs[g], t) - 2)

\* C37: getOutputNode is the front of the output list (empty for an empty
\* list), getOutputNodeInput is input 0 of that node, getRealInputForInput(t)
\* is the input of the group at the position of t in the input list (empty
\* when t is not listed), and after an earlier terminal is taken out each
\* later terminal maps to the slot one lower.
C37_LookupsFollowTheLists == []LookupsFollowTheLists /\ [][LaterTerminalsShift]_vars

\* C37 witness: two output terminals are listed, the first input terminal has
\* just been deactivated and the second one is now at the front.
C37_Witness ==
    /\ lastCall.op = "notifyNodeDeactivated"
    /\ inputs["A"] = <<"I2">>
    /\ outputs["A"] = <<"O1", "O2">>
    /\ getRealInputForInput("A", 0, "I2") = getInput("A", 0)
    /\ getOutputNodeInput("A") = getInput("O1", 0)

(***************************************************************************)
(* The derived lists of a group under threads.  nodesLock (a recursive     *)
(* QMutex, "protects inputs & outputs") is taken by the functions that     *)
(* construct a QMutexLocker on it; a call that takes it starts at pc       *)
(* "lockPorts" and touches the lists at pc "ports".  No call of the model  *)
(* is nested in another one on the same lock.                              *)
(***************************************************************************)
\* the functions that construct QMutexLocker k(&_imp->nodesLock)
LockedPortCalls == {"notifyNodeActivated", "notifyNodeDeactivated", "getInputs", "getOutputNode"}

\* the member terminals the port calls are made for
LockNodes == {"I1", "O1"}

StartPortCall(t, fn, g, n) ==
    /\ stack[t] = <<>>
    /\ fn \in LockedPortCalls
    /\ fn \in {"notifyNodeActivated", "notifyNodeDeactivated"} => n \in Range(nodes[g])
    /\ fn \in {"getInputs", "getOutputNode"} => n = Null
    /\ stack' = [stack EXCEPT ![t] = <<[Frame(fn, g) EXCEPT !.n = n, !.pc = "lockPorts"]>>]
    /\ UNCHANGED <<structure, lastCall, nodesMutex, nodesLock, seen>>

\* QMutexLocker k(&_imp->nodesLock)
AcquireNodesLock(t) ==
    /\ stack[t] # <<>>
    /\ Top(t).pc = "lockPorts"
    /\ nodesLock[Top(t).c] = Null
    /\ nodesLock' = [nodesLock EXCEPT ![Top(t).c] = t]
    /\ stack' = SetTop(t, [Top(t) EXCEPT !.pc = "ports"])
    /\ UNCHANGED <<structure, lastCall, nodesMutex, seen>>

\* the body of a function that holds the locker, to the destruction of the locker
PortBody(t) ==
    /\ stack[t] # <<>>
    /\ Top(t).pc = "ports"
    /\ Top(t).fn \in LockedPortCalls
    /\ LET g == Top(t).c
           n == Top(t).n
       IN  \/ Top(t).fn = "notifyNodeActivated" /\ notifyNodeActivated(g, n)
           \/ Top(t).fn = "notifyNodeDeactivated" /\ notifyNodeDeactivated(g, n)
           \/ /\ Top(t).fn = "getInputs"
              /\ lastCall' = [op |-> "getInputs", n |-> Null, ret |-> getInputs(g)]
              /\ UNCHANGED <<nodes, inputs, outputs, isActivatingGroup, isDeactivatingGroup>>
           \/ /\ Top(t).fn = "getOutputNode"
              /\ lastCall' = [op |-> "getOutputNode", n |-> Null, ret |-> getOutputNode(g)]
              /\ UNCHANGED <<nodes, inputs, outputs, isActivatingGroup, isDeactivatingGroup>>
    /\ nodesLock' = [nodesLock EXCEPT ![Top(t).c] = Null]
    /\ stack' = Pop(t)
    /\ UNCHANGED <<nodeInputs, nodesMutex, seen>>

\* thread t is at a statement that reads or writes inputs or outputs of g:
\* the body of a port call, or the onNodeRemoved call inside removeNode
Accessing(t, g) ==
    /\ stack[t] # <<>>
    /\ Top(t).c = g
    /\ \/ Top(t).pc = "ports"
       \/ Top(t).fn = "removeNode" /\ Top(t).pc = "locked"

\* NodeGroup::getMaxInputCount: no locker is constructed, the call is at the read
StartGetMaxInputCount(t, g) ==
    /\ stack[t] = <<>>
    /\ stack' = [stack EXCEPT ![t] = <<[Frame("getMaxInputCount", g) EXCEPT !.pc = "ports"]>>]
    /\ UNCHANGED <<structure, lastCall, nodesMutex, nodesLock, seen>>

\* return (int)_imp->inputs.size(): the size of the list, or any size when
\* another thread is at the lists at the same time
GetMaxInputCountBody(t) ==
    /\ Running(t, "getMaxInputCount", "ports")
    /\ \E r \in 0..MaxInputs :
          /\ (\A u \in Threads \ {t} : ~Accessing(u, Top(t).c)) => r = getMaxInputCount(Top(t).c)
          /\ lastCall' = [op |-> "getMaxInputCount", n |-> Null, ret |-> r]
    /\ stack' = Pop(t)
    /\ UNCHANGED <<structure, nodesMutex, nodesLock, seen>>

LockNext ==
    \/ Acquire(Mutator)
    \/ \E n \in LockNodes, fn \in {"addNode", "removeNode"} : StartMutation(Mutator, fn, "A", n)
    \/ MutationBody(Mutator)
    \/ \E t \in {SnapshotReader}, fn \in LockedPortCalls, n \in LockNodes \cup {Null} : StartPortCall(t, fn, "A", n)
    \/ \E t \in {SnapshotReader} : AcquireNodesLock(t)
    \/ \E t \in {SnapshotReader} : PortBody(t)
    \/ \E t \in {SnapshotReader} : StartGetMaxInputCount(t, "A")
    \/ \E t \in {SnapshotReader} : GetMaxInputCountBody(t)

LockSpec == ConcInit /\ [][LockNext]_vars

(***************************************************************************)
(* The lock of the derived lists.                                          *)
(***************************************************************************)
\* C38: every read and every write of the input list and of the output list
\* of a group is made by a thread that holds the nodesLock of the group.
C38_ListsAccessedUnderNodesLock ==
    \A t \in Threads : \A g \in Groups : Accessing(t, g) => nodesLock[g] = t

(***************************************************************************)
(* Properties of the result of a load.                                     *)
(***************************************************************************)
\* a reference of the created record s that no node is found for
Unresolved(s) ==
    \E ref \in References(s) :
        findSerializedNodeWithScriptName(lastCall.done, lastCall.ser, ref[2],
                                         lastCall.done.members, lastCall.flags) = Null

\* C31: a load returns success exactly when no plugin was missing, no major
\* version differed, no creation failed and no reference of a created node
\* was left unresolved.
C31_SuccessIffNothingWentWrong ==
    Loaded =>
        (lastCall.ret <=>
            /\ \A s \in BatchRecords : lastCall.ser[s].outcome = "created"
            /\ \A s \in CreatedRecords : ~Unresolved(s))

\* C32: the list handed back to the caller holds the created nodes, one for
\* every record that has a node, in the order of the batch, and no empty entry.
C32_CreatedNodesOutHoldsTheCreatedNodes ==
    Loaded =>
        /\ Null \notin Range(lastCall.done.createdNodesOut)
        /\ lastCall.done.createdNodesOut =
              SelectSeq([i \in 1..Len(lastCall.serializedNodes) |->
                            createdNodeOf(lastCall.serializedNodes[i])],
                        LAMBDA n : \E s \in CreatedRecords : createdNodeOf(s) = n)

\* the nodes created by the load
CreatedNodes == {createdNodeOf(s) : s \in CreatedRecords}

\* C36: with cross-batch connections disabled a load changes the inputs and
\* the parameter links of the nodes it created and of no other node; a member
\* that was there before is left as it was, also when its script name is the
\* saved name of a record whose creation failed.
C36_OnlyCreatedNodesAreTouched ==
    (Loaded /\ ~lastCall.flags) =>
        /\ \A n \in DOMAIN nodeInputs \ CreatedNodes : nodeInputs[n] = lastCall.before.w[n]
        /\ \A i \in 1..Len(lastCall.done.swaps) :
              createdNodeOf(lastCall.done.swaps[i].s) \in CreatedNodes
        /\ \A link \in lastCall.done.links : link[1] \in CreatedNodes

\* the load is the round trip of the membership
RoundTrip ==
    /\ Loaded
    /\ ~lastCall.flags
    /\ lastCall.serializedNodes = SerializeAll(lastCall.before.w, lastCall.before.members)
    /\ \A n \in Range(lastCall.before.members) :
          lastCall.ser[recordOf(n)] = Serialize(lastCall.before.w, n)

\* C33: when the members of a collection, whose script names differ, are
\* saved and loaded again into a collection that has all their names, every
\* created node gets a new name and the created nodes are wired to each other
\* as the saved ones were: created(x) feeds input i of created(y) exactly
\* when x fed input i of y.
C33_RoundTripKeepsTheWiring ==
    RoundTrip =>
        LET saved == Range(lastCall.before.members)
            copy(n) == createdNodeOf(recordOf(n))
        IN  /\ \A n \in saved :
                  /\ copy(n) \in Range(nodes[Root])
                  /\ lastCall.done.name[copy(n)] \notin {getScriptName(m) : m \in saved}
                  /\ \A m \in saved \ {n} : lastCall.done.name[copy(n)] # lastCall.done.name[copy(m)]
            /\ \A x, y \in saved : \A i \in 1..Node_getMaxInputCount(y) :
                  nodeInputs[copy(y)][i] = copy(x) <=> lastCall.before.w[y][i] = x
            /\ \A y \in saved : \A i \in 1..Node_getMaxInputCount(y) :
                  nodeInputs[copy(y)][i] # Null => \E x \in saved : nodeInputs[copy(y)][i] = copy(x)

\* C33 witness: P was fed by N1 through its source input and N1 by P through
\* its second mask; their copies, renamed a2 and a11, are wired the same way.
C33_Witness ==
    /\ RoundTrip
    /\ lastCall.before.members = <<"P", "N1">>
    /\ lastCall.before.w["P"] = <<"N1", Null, Null>>
    /\ lastCall.before.w["N1"] = <<Null, Null, "P">>
    /\ lastCall.done.name["L1"] = <<"a", "2">>
    /\ lastCall.done.name["L2"] = <<"a", "1", "1">>
    /\ nodeInputs["L1"] = <<"L2", Null, Null>>
    /\ nodeInputs["L2"] = <<Null, Null, "L1">>

(***************************************************************************)
(* Properties of the entries of a record.                                  *)
(***************************************************************************)
\* the entries of record s: whether it is a mask, its key and the name it refers to
Entries(s) ==
    {[isMaskInput |-> FALSE, label |-> lastCall.ser[s].inputLabel, name |-> lastCall.ser[s].input],
     [isMaskInput |-> TRUE, label |-> lastCall.ser[s].maskLabel, name |-> lastCall.ser[s].mask]}

\* the calls of swapInput made for entry e of record s
SwapsFor(s, e) ==
    {i \in 1..Len(lastCall.done.swaps) :
        lastCall.done.swaps[i].s = s /\ lastCall.done.swaps[i].isMaskInput = e.isMaskInput}

\* the inputs of node n that are masks, in the order of the inputs (from 0)
MaskSlots(n) == {i \in 0..(Node_getMaxInputCount(n) - 1) : isInputMask(n, i)}

\* the mask of node n that has N masks before it
NthMask(n, N) == CHOOSE i \in MaskSlots(n) : Cardinality({j \in MaskSlots(n) : j < i}) = N

\* the key of entry e is a number and not the label of an input
BareNumber(s, e) ==
    toInt(e.label).ok /\ getInputNumberFromLabel(createdNodeOf(s), e.label) = -1

\* the key of entry e names an input: by label, or by number
Identified(s, e) ==
    e.label # <<>> /\ (getInputNumberFromLabel(createdNodeOf(s), e.label) # -1 \/ toInt(e.label).ok)

\* a node is found for the name entry e refers to
Found(e) ==
    /\ e.name # <<>>
    /\ findSerializedNodeWithScriptName(lastCall.done, lastCall.ser, e.name,
                                        lastCall.done.members, lastCall.flags) # Null

\* C34: a mask entry keyed by a bare number N, on a node with more than one
\* mask, is connected to the N-th mask input of the node, for every N below
\* the number of masks.
C34_MaskIndexIsTheNthMask ==
    Loaded =>
        \A s \in CreatedRecords : \A e \in Entries(s) :
            (/\ e.isMaskInput /\ Found(e) /\ BareNumber(s, e)
             /\ Cardinality(MaskSlots(createdNodeOf(s))) > 1
             /\ toInt(e.label).value < Cardinality(MaskSlots(createdNodeOf(s))))
            => \A i \in SwapsFor(s, e) :
                  lastCall.done.swaps[i].index = NthMask(createdNodeOf(s), toInt(e.label).value)

\* C35: for an entry whose key names no input, or whose node is not found,
\* swapInput is not called; for every other entry it is called once.
C35_UnresolvedEntryIsSkipped ==
    Loaded =>
        \A s \in CreatedRecords : \A e \in Entries(s) :
            IF e.name # <<>> /\ Identified(s, e) /\ Found(e)
            THEN Cardinality(SwapsFor(s, e)) = 1
            ELSE SwapsFor(s, e) = {}

(***************************************************************************)
(* Locking properties.                                                     *)
(***************************************************************************)
HeldBy(t) == {c \in Collections : nodesMutex[c] = t}

\* thread t stands in front of a mutex that is held
Blocked(t) == stack[t] # <<>> /\ Top(t).pc = "lock" /\ nodesMutex[Top(t).c] # Null

\* C4: the list getNodes returns is the membership list as it was at one
\* instant of the call, and stays that list while the caller holds it, whatever
\* addNode, removeNode and clearNodes do meanwhile.
C4_GetNodesReturnsSnapshot ==
    \A t \in Readers : Running(t, "getNodes", "done") => Top(t).acc \in seen[t]

\* C4 witness: a reader holds the two-element list it was given while the
\* collection has since been cleared.
C4_Witness ==
    \E t \in Readers :
        /\ Running(t, "getNodes", "done")
        /\ Top(t).c = Root
        /\ Top(t).acc = <<"P", "A">>
        /\ nodes[Root] = <<>>

\* C6: at any instant a thread holds the membership lock of at most one
\* collection.
C6_AtMostOneMutexHeld == \A t \in Threads : Cardinality(HeldBy(t)) <= 1

\* no set of threads waits in a circle for mutexes held inside the set, a held
\* mutex belongs to a thread that is still inside the call that took it, and a
\* thread inside a call that is not waiting for a mutex can take its next step
NoDeadlockNow ==
    /\ \A D \in (SUBSET Threads) \ {{}} :
          ~(\A t \in D : Blocked(t) /\ nodesMutex[Top(t).c] \in D)
    /\ \A c \in Collections : nodesMutex[c] # Null =>
          \E k \in 1..Len(stack[nodesMutex[c]]) :
             stack[nodesMutex[c]][k].c = c /\ stack[nodesMutex[c]][k].pc \in {"locked", "return"}
    /\ \A t \in Threads : (stack[t] # <<>> /\ ~Blocked(t)) => ENABLED ThreadStep(t)

\* C7: with one thread doing addNode/removeNode and the others reading, no
\* deadlock is reachable, and every call that was started returns.
C7_NoDeadlock ==
    /\ []NoDeadlockNow
    /\ \A t \in Threads : (stack[t] # <<>>) ~> (stack[t] = <<>>)

\* C7 witness: one reader holds the mutexes of two nested collections, the other
\* reader waits for one of them, and the mutating thread waits as well.
C7_Witness ==
    \E t, u \in Readers :
        /\ t # u
        /\ Cardinality(HeldBy(u)) >= 2
        /\ Blocked(t) /\ nodesMutex[Top(t).c] = u
        /\ Blocked(Mutator)

====
